---- MODULE Spec2Model ----
(***************************************************************************)
(* Cortical: the Cerebrum (network driver), the Cortex (composite), the    *)
(* LobeWrapper (adapter), the Effector (capability object) and the         *)
(* Protocol conversion of src/src/lib.rs, and the Organelle of             *)
(* src/src/organelle.rs.                                                   *)
(*                                                                         *)
(* A network is a tree: the Cerebrum owns top-level nodes, a Cortex owns   *)
(* an input child, an output child and interior (misc) children.  Every    *)
(* effector call spawns an independent send future on the reactor; the     *)
(* reactor may complete spawned futures in any order.                      *)
(***************************************************************************)
EXTENDS Integers, Sequences, FiniteSets, TLC

VARIABLES
    phase,        \* "build" until Cerebrum::run is called, then "run"
    result,       \* outcome of the program: "pending", "Ok" (run returned Ok) or "Panic"
    nodes,        \* Cerebrum.nodes: the top-level nodes registered so far
    misc,         \* CortexNodePool.misc of every cortex
    connections,  \* Cortex.connections of every cortex
    declared,     \* history: the (input, output) pairs given to Cerebrum::connect
    effector,     \* the effector each lobe received with Init (NoEff before)
    log,          \* history: the events each lobe's update has observed, in order
    slot,         \* LobeWrapper.0 of the wrapper of every lobe: "full" (Some) or "empty" (None)
    registry,     \* the RefCell around the nodes of every cortex: "free" or "borrowed"
    queue,        \* the mpsc channel of the cerebrum and of every cortex
    tasks,        \* the send futures spawned on the reactor and not yet completed
    calls,        \* history: the effector calls the user lobes have made, in order
    stops,        \* history: number of Stop events the cerebrum's loop has taken
    pool,         \* the lobes the integrator hands to Cerebrum::add_lobe
    organelle,    \* Organelle: "new" until run is called, "running", then "Ok", "Err" or "Panic"
    somas,        \* Organelle.somas: the uuids that own a channel
    synapses,     \* history: the (dendrite, terminal) pairs given to Organelle::connect, with its result
    main_rx,      \* the channel behind Organelle.main_tx / main_rx
    rx,           \* per soma, the channel whose sender Organelle.somas holds
    relay,        \* per soma, the impulse the rx.for_each closure is sending on
    soma_rx,      \* per soma, the channel run_soma reads
    dropped,      \* the somas whose rx has been dropped
    soma,         \* per soma, the fields of the soma and the task it spawned
    spawned,      \* the send futures Organelle spawned on the reactor, not yet completed
    impulses,     \* history: the impulses each soma's update has received, in order
    failure,      \* the cause of the error Organelle::run returned (NoFailure before)
    inner_main,   \* the channel behind main_tx / main_rx of an organelle added as a soma
    solo,         \* a soma driven by the default Soma::run: its state and the outcome of run
    solo_rx       \* the channel the default Soma::run creates and reads

organelle_vars == <<organelle, somas, synapses, main_rx, rx, relay, soma_rx,
                    dropped, soma, spawned, impulses, failure, inner_main>>

solo_vars == <<solo, solo_rx>>

cortical_vars == <<phase, result, nodes, misc, connections, declared, effector,
                   log, queue, tasks, calls, stops, pool, slot, registry>>

vars == <<cortical_vars, organelle_vars, solo_vars>>

----------------------------------------------------------------------------
(* Bounds of the model *)

\* total number of calls the users of the library make: connect calls of the
\* integrator, and effector calls (send or stop) of the lobes
MaxCalls == 2

----------------------------------------------------------------------------
(* The lobes the integrator builds.  Two networks are available: a cortex A
   (input AI, output AO, interior AM) beside a plain lobe T, and a cortex N
   (interior NM) holding a cortex P holding a cortex Q.  B is a plain lobe
   that may send twice during one update.  A third network is the one of
   test_cortex: a cortex X of an IncrementerLobe XI and a CounterLobe XO. *)

Cortexes == {"A", "N", "P", "Q", "X"}

Leaves == {"T", "B", "AI", "AO", "AM", "NI", "NM", "PI", "QI", "QO", "XI", "XO"}

\* the lobes of the tests
TestLobes == {"XI", "XO"}

Nodes == Cortexes \cup Leaves

NoNode == "-"

Cerebrum == "cerebrum"

\* the channels: one per cerebrum, one per cortex
Channels == {Cerebrum} \cup Cortexes

\* Cortex::new(input, output): the lobe given as input child
InputOf == [A |-> "AI", N |-> "NI", P |-> "PI", Q |-> "QI", X |-> "XI"]

\* Cortex::new(input, output): the lobe given as output child
OutputOf == [A |-> "AO", N |-> "P", P |-> "Q", Q |-> "QO", X |-> "XO"]

\* the lobes Cortex::add_lobe may be called with
MiscPool == [A |-> {"AM"}, N |-> {"NM"}, P |-> {}, Q |-> {}, X |-> {}]

\* the cortex that a lobe is (or may become) a child of; NoNode for a lobe
\* handed to the cerebrum
ParentOf ==
    [n \in Nodes |->
        IF \E c \in Cortexes : n \in {InputOf[c], OutputOf[c]} \cup MiscPool[c]
        THEN CHOOSE c \in Cortexes : n \in {InputOf[c], OutputOf[c]} \cup MiscPool[c]
        ELSE NoNode]

RECURSIVE Ancestor(_)
Ancestor(n) == IF ParentOf[n] = NoNode THEN n ELSE Ancestor(ParentOf[n])

\* the lobe handed to the cerebrum that holds n
TopOf == [n \in Nodes |-> Ancestor(n)]

\* the lobes registered beside n in the cortex that holds it
Siblings == [n \in Nodes |-> {x \in Nodes : ParentOf[x] = ParentOf[n] /\ ParentOf[n] # NoNode}]

----------------------------------------------------------------------------
(* Handles.  Handle::new_v4() yields a value no other call yields; each call
   site of the source is given its own value here. *)

NoHandle == "h-"

\* the handle a lobe is registered under: Cerebrum::add_lobe (top level),
\* Cortex::new (input_hdl, output_hdl), Cortex::add_lobe (key of misc)
HandleOf ==
    [A |-> "hA", T |-> "hT", B |-> "hB", AI |-> "hAI", AO |-> "hAO", AM |-> "hAM",
     N |-> "hN", NI |-> "hNI", NM |-> "hNM", P |-> "hP", PI |-> "hPI", Q |-> "hQ",
     QI |-> "hQI", QO |-> "hQO", X |-> "hXX", XI |-> "hXI", XO |-> "hXO"]

\* the handle Cortex::init draws for the effector of an interior child
InitHandleOf == [AM |-> "vAM", NM |-> "vNM"]

\* a handle no registry owns
Stranger == "hX"

\* input_hdl of a cortex
InputHdl(c) == HandleOf[InputOf[c]]

\* output_hdl of a cortex
OutputHdl(c) == HandleOf[OutputOf[c]]

----------------------------------------------------------------------------
(* Message types.  Every lobe has a private message type; a value of one
   type is turned into a value of another with From/Into.  A message is a
   body tagged with its type. *)

\* the content of the messages of a lobe of the embedding program
Body == "body"

\* the message types of the test lobes and their values
IncrementerType == "IncrementerMessage"
CounterType == "CounterMessage"
IncrementerMessage == {"Increment", "Ack"}
CounterMessage == {"BumpCounter", "Ack"}

\* a conversion that panicked
Poison == "panic"

\* tests: impl From<CounterMessage> for IncrementerMessage
IncrementerMessage_from(msg) == IF msg = "Ack" THEN "Ack" ELSE Poison

\* tests: impl From<IncrementerMessage> for CounterMessage
CounterMessage_from(msg) == IF msg = "Increment" THEN "BumpCounter" ELSE Poison

\* M of Cerebrum<M>: IncrementerMessage in test_cortex
CerebrumType == IF "X" \in pool THEN IncrementerType ELSE "M"

\* the message type of each lobe (M of Cortex<M>, T of Lobe<T>)
MsgTypeOf ==
    [A |-> "MA", T |-> "MT", B |-> "MB", AI |-> "MA", AO |-> "MO", AM |-> "MM",
     N |-> "M", NI |-> "MI", NM |-> "MM", P |-> "MP", PI |-> "MP", Q |-> "MQ",
     QI |-> "MQ", QO |-> "MO",
     X |-> IncrementerType, XI |-> IncrementerType, XO |-> CounterType]

\* the message type of the network a lobe is a node of
NetTypeOf(n) ==
    IF ParentOf[n] = NoNode THEN CerebrumType ELSE MsgTypeOf[ParentOf[n]]

NoMsg == [ty |-> "-", v |-> 0, c |-> "-"]

\* From<..> for t applied to the content of m; between other types the
\* content is taken over as it is
From(m, t) ==
    CASE m.c = Poison -> Poison
      [] m.ty = CounterType /\ t = IncrementerType -> IncrementerMessage_from(m.c)
      [] m.ty = IncrementerType /\ t = CounterType -> CounterMessage_from(m.c)
      [] OTHER -> m.c

\* msg.into(): the value of type t made from m
Into(m, t) == [ty |-> t, v |-> m.v, c |-> From(m, t)]

----------------------------------------------------------------------------
(* Protocol<M> and Effector<M> *)

\* an effector: the owner's handle, the channel its sender closure feeds,
\* the message type of that channel, and the type of the messages it takes
NoEff == [handle |-> NoHandle, chan |-> "-", net |-> "-", ty |-> "-"]

Proto(k, h, src, dest, m, eff) ==
    [k |-> k, h |-> h, src |-> src, dest |-> dest, m |-> m, eff |-> eff]

Init_(eff) == Proto("Init", NoHandle, NoHandle, NoHandle, NoMsg, eff)
AddInput(h) == Proto("AddInput", h, NoHandle, NoHandle, NoMsg, NoEff)
AddOutput(h) == Proto("AddOutput", h, NoHandle, NoHandle, NoMsg, NoEff)
Start == Proto("Start", NoHandle, NoHandle, NoHandle, NoMsg, NoEff)
Payload(src, dest, m) == Proto("Payload", NoHandle, src, dest, m, NoEff)
Message(src, m) == Proto("Message", NoHandle, src, NoHandle, m, NoEff)
Stop == Proto("Stop", NoHandle, NoHandle, NoHandle, NoMsg, NoEff)

\* a conversion that addresses a converted Payload to its sender
convert_protocol_returned(msg, t) ==
    CASE msg.k = "Init" -> Init_([msg.eff EXCEPT !.ty = t])
      [] msg.k = "AddInput" -> AddInput(msg.h)
      [] msg.k = "AddOutput" -> AddOutput(msg.h)
      [] msg.k = "Start" -> Start
      [] msg.k = "Payload" -> Payload(msg.src, msg.src, Into(msg.m, t))
      [] msg.k = "Message" -> Message(msg.src, Into(msg.m, t))
      [] msg.k = "Stop" -> Stop

\* Protocol::<t>::convert_protocol(msg): the event for a lobe whose message
\* type is t.  The effector of Init is wrapped: it takes messages of type t
\* and converts them back before handing them to the sender it wraps.
convert_protocol(msg, t) ==
    CASE msg.k = "Init" -> Init_([msg.eff EXCEPT !.ty = t])
      [] msg.k = "AddInput" -> AddInput(msg.h)
      [] msg.k = "AddOutput" -> AddOutput(msg.h)
      [] msg.k = "Start" -> Start
      [] msg.k = "Payload" -> Payload(msg.src, msg.dest, Into(msg.m, t))
      [] msg.k = "Message" -> Message(msg.src, Into(msg.m, t))
      [] msg.k = "Stop" -> Stop

----------------------------------------------------------------------------
(* What the lobes do.  The leaves are user lobes: on Start and on Message a
   user lobe may call its effector once (send to some handle, or stop); lobe
   B may also send twice in a row to one handle ("burst").  On Init a lobe
   stores the effector.  A reaction says what the lobe calls. *)

NoReaction == [do |-> "none", dest |-> NoHandle]

\* the lobes of the network being built or run
Present ==
    {n \in Nodes : TopOf[n] \in pool
                   /\ \A c \in Cortexes : n \in MiscPool[c] => n \in misc[c]}

\* the handles user lobe n may address: those of the registry it is in, those
\* of the cerebrum's registry, and a handle no registry owns
Dests(n) == {HandleOf[x] : x \in (Siblings[n] \cup pool) \cap Present} \cup {Stranger}

\* what user lobe n may call on Start or Message
Reactions(n) ==
    {NoReaction, [do |-> "stop", dest |-> NoHandle]}
        \cup {[do |-> "send", dest |-> d] : d \in Dests(n)}
        \cup {[do |-> "burst", dest |-> d] : d \in IF n = "B" THEN Dests(n) ELSE {}}

\* the number of effector calls a reaction makes
Cost(r) == CASE r.do = "none" -> 0 [] r.do = "burst" -> 2 [] OTHER -> 1

\* the part of the state an update can change
St == [log |-> log, slot |-> slot, registry |-> registry, effector |-> effector, tasks |-> tasks, calls |-> calls,
       panic |-> FALSE]

\* a panic unwinds the call: nothing after it runs
Panic(st) == [st EXCEPT !.panic = TRUE]

\* what follows a call that has returned; a call that panicked is followed
\* by nothing
Then(st, Rest(_)) == CHOOSE r \in {IF x.panic THEN x ELSE Rest(x) : x \in {st}} : TRUE

\* a sender closure that hands the event on as the lobe expressed it
sender_unconverted(st, eff, id, msg) ==
    [st EXCEPT !.tasks = @ \cup {[to |-> eff.chan, id |-> id, msg |-> msg]}]

\* the sender closure of an effector: it converts the event to the channel's
\* message type and spawns the future that sends it.  id tells the futures of
\* different effector calls apart.
sender(st, eff, id, msg) ==
    IF convert_protocol(msg, eff.net).m.c = Poison THEN Panic(st)
    ELSE [st EXCEPT !.tasks = @ \cup {[to |-> eff.chan, id |-> id,
                                       msg |-> convert_protocol(msg, eff.net)]}]

\* Effector::send_cortex_message, called by user lobe n: the call is recorded
\* and its number tells its future apart
send_cortex_message(st, n, eff, msg, dest) ==
    [sender(st, eff, Len(st.calls) + 1, msg)
        EXCEPT !.calls = Append(@, [by |-> n, do |-> msg.k, dest |-> dest])]

\* the last handle a lobe was told with an event of kind k (NoHandle: None)
LastHandle(lg, k) ==
    LET S == {i \in DOMAIN lg : lg[i].k = k}
    IN  IF S = {} THEN NoHandle ELSE lg[CHOOSE i \in S : \A j \in S : j <= i].h

\* the BumpCounter messages a CounterLobe has been updated with
Bumps(lg) == Cardinality({i \in DOMAIN lg : lg[i].k = "Message" /\ lg[i].m.c = "BumpCounter"})

\* the bound of CounterLobe::update
CounterLimit == 5

\* CounterLobe.counter
counter(lg) == IF Bumps(lg) < CounterLimit THEN Bumps(lg) ELSE CounterLimit

\* Effector::send presenting no source
send_unsigned(st, n, eff, dest, m) ==
    send_cortex_message(st, n, eff, Payload(NoHandle, dest, m), dest)

\* Effector::send that puts the message on the channel as a Message event
send_as_message(st, n, eff, dest, m) ==
    send_cortex_message(st, n, eff, Message(eff.handle, m), dest)

\* Effector::send
send(st, n, eff, dest, m) ==
    send_cortex_message(st, n, eff, Payload(eff.handle, dest, m), dest)

\* Effector::stop with its send left out: the call is made, no Stop travels
stop_unsent(st, n, eff) ==
    [st EXCEPT !.calls = Append(@, [by |-> n, do |-> "Stop", dest |-> NoHandle])]

\* Effector::stop
stop(st, n, eff) == send_cortex_message(st, n, eff, Stop, NoHandle)

\* Lobe::update of a user lobe n, with the reaction r it chooses.  The body of
\* a message it sends is the number of the call.
LobeUpdate(st, n, msg, r) ==
    LET seen == [st EXCEPT !.log[n] = Append(@, msg)]
        eff  == seen.effector[n]
    IN  CASE msg.k = "Init" -> [seen EXCEPT !.effector[n] = msg.eff]
          [] msg.k \in {"Start", "Message"} /\ r.do = "send" ->
                IF eff = NoEff THEN Panic(seen)
                ELSE send(seen, n, eff, r.dest,
                          [ty |-> eff.ty, v |-> Len(seen.calls) + 1, c |-> Body])
          [] msg.k \in {"Start", "Message"} /\ r.do = "burst" ->
                IF eff = NoEff THEN Panic(seen)
                ELSE LET once == send(seen, n, eff, r.dest,
                                      [ty |-> eff.ty, v |-> Len(seen.calls) + 1, c |-> Body])
                     IN  send(once, n, eff, r.dest,
                              [ty |-> eff.ty, v |-> Len(once.calls) + 1, c |-> Body])
          [] msg.k \in {"Start", "Message"} /\ r.do = "stop" ->
                IF eff = NoEff THEN Panic(seen) ELSE stop(seen, n, eff)
          [] OTHER -> seen

\* tests: IncrementerLobe::update
IncrementerUpdate(st, n, msg) ==
    LET seen   == [st EXCEPT !.log[n] = Append(@, msg)]
        eff    == seen.effector[n]
        output == LastHandle(st.log[n], "AddOutput")
        inc    == [ty |-> IncrementerType, v |-> Len(seen.calls) + 1, c |-> "Increment"]
    IN  CASE msg.k = "Init" -> [seen EXCEPT !.effector[n] = msg.eff]
          [] msg.k = "Start" ->
                IF eff = NoEff THEN Panic(seen)
                ELSE IF output # NoHandle THEN send(seen, n, eff, output, inc)
                ELSE stop(seen, n, eff)
          [] msg.k = "Message" /\ msg.m.c = "Ack" ->
                IF output = NoHandle \/ msg.src # output \/ eff = NoEff
                THEN Panic(seen)
                ELSE send(seen, n, eff, output, inc)
          [] OTHER -> seen

\* CounterLobe::update acknowledging one BumpCounter more
CounterUpdate_one_more(st, n, msg) ==
    LET seen  == [st EXCEPT !.log[n] = Append(@, msg)]
        eff   == seen.effector[n]
        input == LastHandle(st.log[n], "AddInput")
        ack   == [ty |-> CounterType, v |-> Len(seen.calls) + 1, c |-> "Ack"]
    IN  CASE msg.k = "Init" -> [seen EXCEPT !.effector[n] = msg.eff]
          [] msg.k = "Message" /\ msg.m.c = "BumpCounter" ->
                IF input = NoHandle \/ msg.src # input \/ eff = NoEff
                THEN Panic(seen)
                ELSE IF Bumps(st.log[n]) <= CounterLimit
                THEN send(seen, n, eff, input, ack)
                ELSE stop(seen, n, eff)
          [] OTHER -> seen

\* tests: CounterLobe::update
CounterUpdate(st, n, msg) ==
    LET seen  == [st EXCEPT !.log[n] = Append(@, msg)]
        eff   == seen.effector[n]
        input == LastHandle(st.log[n], "AddInput")
        ack   == [ty |-> CounterType, v |-> Len(seen.calls) + 1, c |-> "Ack"]
    IN  CASE msg.k = "Init" -> [seen EXCEPT !.effector[n] = msg.eff]
          [] msg.k = "Message" /\ msg.m.c = "BumpCounter" ->
                IF input = NoHandle \/ msg.src # input \/ eff = NoEff
                THEN Panic(seen)
                ELSE IF counter(st.log[n]) < CounterLimit
                THEN send(seen, n, eff, input, ack)
                ELSE stop(seen, n, eff)
          [] OTHER -> seen

\* the node of cortex c that update_node finds for hdl (NoNode: the unwrap of
\* misc.get_mut panics)
NodeAt(c, hdl) ==
    IF hdl = InputHdl(c) THEN InputOf[c]
    ELSE IF hdl = OutputHdl(c) THEN OutputOf[c]
    ELSE IF \E n \in misc[c] : HandleOf[n] = hdl
         THEN CHOOSE n \in misc[c] : HandleOf[n] = hdl
         ELSE NoNode

\* the effector Cortex::init makes for a child: it feeds the cortex's own channel
ChildEffector(c, h) ==
    [handle |-> h, chan |-> c, net |-> MsgTypeOf[c], ty |-> MsgTypeOf[c]]

RECURSIVE SeqOf(_)
\* the members of a set in the order an iteration visits them
SeqOf(S) == IF S = {} THEN <<>> ELSE LET x == CHOOSE x \in S : TRUE IN <<x>> \o SeqOf(S \ {x})

RECURSIVE ConnectionCalls(_, _)
\* Cortex::init, the loop over self.connections: two update_node calls per pair
ConnectionCalls(c, conns) ==
    IF conns = <<>> THEN <<>>
    ELSE <<[n |-> NodeAt(c, Head(conns)[1]), msg |-> AddOutput(Head(conns)[2])],
           [n |-> NodeAt(c, Head(conns)[2]), msg |-> AddInput(Head(conns)[1])]>>
         \o ConnectionCalls(c, Tail(conns))

\* the same event for every node of a sequence
ToAll(ns, msg) == [i \in 1..Len(ns) |-> [n |-> ns[i], msg |-> msg]]

\* mem::replace(&mut self.0, None): the slot of the wrapper of n is emptied
take(st, n) == [st EXCEPT !.slot[n] = "empty"]

\* a store that leaves the slot as it is
store_nothing(st, n) == st

\* self.0 = Some(lobe): the updated lobe is put into the slot
store(st, n) == [st EXCEPT !.slot[n] = "full"]

RECURSIVE update(_, _, _, _)
RECURSIVE Each(_, _, _)

\* a sequence of update calls made one after the other
Each(st, todo, plan) ==
    IF todo = <<>> \/ st.panic THEN st
    ELSE Each(update(st, Head(todo).n, Head(todo).msg, plan), Tail(todo), plan)

\* Cortex::init notifying the connections before it initializes the children
init_late(st, c, eff, plan) ==
    LET m == SeqOf(misc[c])
    IN  Each([st EXCEPT !.effector[c] = eff],
             ConnectionCalls(c, connections[c])
             \o <<[n |-> InputOf[c], msg |-> Init_(ChildEffector(c, InputHdl(c)))],
                  [n |-> OutputOf[c], msg |-> Init_(ChildEffector(c, OutputHdl(c)))]>>
             \o [i \in 1..Len(m) |->
                    [n |-> m[i], msg |-> Init_(ChildEffector(c, InitHandleOf[m[i]]))]],
             plan)

\* Cortex::init
init(st, c, eff, plan) ==
    LET m == SeqOf(misc[c])
    IN  Each([st EXCEPT !.effector[c] = eff],
             <<[n |-> InputOf[c], msg |-> Init_(ChildEffector(c, InputHdl(c)))],
               [n |-> OutputOf[c], msg |-> Init_(ChildEffector(c, OutputHdl(c)))]>>
             \o [i \in 1..Len(m) |->
                    [n |-> m[i], msg |-> Init_(ChildEffector(c, InitHandleOf[m[i]]))]]
             \o ConnectionCalls(c, connections[c]),
             plan)

\* Cortex::start leaving out the interior children
start_boundary(st, c, plan) ==
    Each(st, ToAll(<<InputOf[c], OutputOf[c]>>, Start), plan)

\* Cortex::start
start(st, c, plan) ==
    Each(st, ToAll(<<InputOf[c], OutputOf[c]>> \o SeqOf(misc[c]), Start), plan)

\* a RefMut that is never dropped
release_nothing(st, c) == st

\* the RefMut of the nodes of cortex c is dropped
release(st, c) == [st EXCEPT !.registry[c] = "free"]

\* (*self.nodes).borrow_mut(): a second borrow panics
borrow_mut(st, c) ==
    IF st.registry[c] # "free"
    THEN Panic([st EXCEPT !.registry[c] = "reentered"])
    ELSE [st EXCEPT !.registry[c] = "borrowed"]

\* Lobe::update of a cortex that hands a Message to its output child
CortexUpdate_to_output(st, c, msg, plan) ==
    Then(borrow_mut([st EXCEPT !.log[c] = Append(@, msg)], c),
         LAMBDA seen :
            Then(CASE msg.k = "Init" -> init(seen, c, msg.eff, plan)
                   [] msg.k = "AddInput" -> update(seen, InputOf[c], AddInput(msg.h), plan)
                   [] msg.k = "AddOutput" -> update(seen, OutputOf[c], AddOutput(msg.h), plan)
                   [] msg.k = "Start" -> start(seen, c, plan)
                   [] msg.k = "Message" ->
                         update(seen, OutputOf[c], Message(msg.src, msg.m), plan)
                   [] OTHER -> Panic(seen),
                 LAMBDA done : release(done, c)))

\* Lobe::update of a cortex: each arm reaches the children under a borrow of
\* the nodes of the cortex
CortexUpdate(st, c, msg, plan) ==
    Then(borrow_mut([st EXCEPT !.log[c] = Append(@, msg)], c),
         LAMBDA seen :
            Then(CASE msg.k = "Init" -> init(seen, c, msg.eff, plan)
                   [] msg.k = "AddInput" -> update(seen, InputOf[c], AddInput(msg.h), plan)
                   [] msg.k = "AddOutput" -> update(seen, OutputOf[c], AddOutput(msg.h), plan)
                   [] msg.k = "Start" -> start(seen, c, plan)
                   [] msg.k = "Message" ->
                         update(seen, NodeAt(c, InputHdl(c)), Message(msg.src, msg.m), plan)
                   [] OTHER -> Panic(seen),
                 LAMBDA done : release(done, c)))

\* Lobe::update of the lobe taken out of the wrapper of n, with the event
\* converted to the lobe's message type
Transition(st, n, msg, plan) ==
    IF convert_protocol(msg, MsgTypeOf[n]).m.c = Poison THEN Panic(st)
    ELSE IF n \in Cortexes
         THEN CortexUpdate(st, n, convert_protocol(msg, MsgTypeOf[n]), plan)
    ELSE IF n = "XI"
         THEN IncrementerUpdate(st, n, convert_protocol(msg, MsgTypeOf[n]))
    ELSE IF n = "XO"
         THEN CounterUpdate(st, n, convert_protocol(msg, MsgTypeOf[n]))
         ELSE LobeUpdate(st, n, convert_protocol(msg, MsgTypeOf[n]), plan[n])

\* update that skips the event when no node is registered under the handle
update_dropping(st, n, msg, plan) ==
    IF n = NoNode THEN st
    ELSE Then(st,
              LAMBDA was :
                 IF was.slot[n] # "full" THEN Panic([was EXCEPT !.slot[n] = "misused"])
                 ELSE Then(Transition(take(was, n), n, msg, plan),
                           LAMBDA done : store(done, n)))

\* Node::update of the LobeWrapper holding lobe n: the lobe is taken out of
\* the slot (the unwrap panics on an empty slot), updated, and stored; a
\* panic of the lobe's update unwinds past the store
update(st, n, msg, plan) ==
    IF n = NoNode THEN Panic(st)
    ELSE Then(st,
              LAMBDA was :
                 IF was.slot[n] # "full" THEN Panic([was EXCEPT !.slot[n] = "misused"])
                 ELSE Then(Transition(take(was, n), n, msg, plan),
                           LAMBDA done : store(done, n)))

----------------------------------------------------------------------------
(* The program *)

\* mpsc::channel(100) of Cerebrum::new and of Cortex::init
ChannelBuffer == 100

\* the user lobes of the network being built or run
Live == (Present \cap Leaves) \ TestLobes

NoPlan == [n \in Leaves |-> NoReaction]

\* the reactions of the lobes during one call: at most `budget` effector calls
Plans(budget) ==
    {[n \in Leaves |-> IF n \in DOMAIN r THEN r[n] ELSE NoReaction] :
        r \in UNION {{r \in [S -> UNION {Reactions(n) : n \in S} \ {NoReaction}] :
                        /\ \A n \in S : r[n] \in Reactions(n)
                        /\ Cardinality(S) + Cardinality({n \in S : Cost(r[n]) = 2})
                              <= budget} :
                     S \in {S \in SUBSET Live : Cardinality(S) <= budget}}}

\* the reaction of the one lobe a delivered message reaches
OnePlans(budget) ==
    {[n \in Leaves |-> IF n \in Live /\ r \in Reactions(n) THEN r ELSE NoReaction] :
        r \in {r \in UNION {Reactions(n) : n \in Live} : Cost(r) <= budget}}
    \cup {NoPlan}

\* the state after a call that has run (or has panicked part-way)
Commit(st) ==
    /\ log' = st.log
    /\ slot' = st.slot
    /\ registry' = st.registry
    /\ effector' = st.effector
    /\ tasks' = st.tasks
    /\ calls' = st.calls
    /\ result' = IF st.panic THEN "Panic" ELSE result

Building == phase = "build" /\ result = "pending"

Running == phase = "run" /\ result = "pending"

RECURSIVE SumLen(_, _)
SumLen(f, S) ==
    IF S = {} THEN 0
    ELSE LET x == CHOOSE x \in S : TRUE IN Len(f[x]) + SumLen(f, S \ {x})

\* number of connect calls made so far
Connects == Len(declared) + SumLen(connections, Cortexes)

\* number of calls the users may still make
Budget == MaxCalls - Connects - Len(calls)

\* Cortex::add_lobe, on a cortex the integrator still owns
CortexAddLobe(c, n) ==
    /\ Building
    /\ TopOf[c] \in pool \ nodes
    /\ n \in MiscPool[c] \ misc[c]
    /\ misc' = [misc EXCEPT ![c] = @ \cup {n}]
    /\ UNCHANGED <<phase, result, nodes, connections, declared, effector, log, slot, registry,
                   queue, tasks, calls, stops, pool,
                   organelle_vars, solo_vars>>

\* Cortex::connect, on a cortex the integrator still owns
CortexConnect(c, input, output) ==
    /\ Building
    /\ TopOf[c] \in pool \ nodes
    /\ Budget > 0
    /\ connections' = [connections EXCEPT ![c] = Append(@, <<input, output>>)]
    /\ UNCHANGED <<phase, result, nodes, misc, declared, effector, log, slot, registry,
                   queue, tasks, calls, stops, pool,
                   organelle_vars, solo_vars>>

\* Cerebrum::add_lobe
add_lobe(n) ==
    /\ Building
    /\ n \in pool \ nodes
    /\ LET eff == [handle |-> HandleOf[n], chan |-> Cerebrum,
                   net |-> CerebrumType, ty |-> CerebrumType]
           st  == update(St, n, Init_(eff), NoPlan)
       IN  /\ Commit(st)
           /\ nodes' = IF st.panic THEN nodes ELSE nodes \cup {n}
    /\ UNCHANGED <<phase, misc, connections, declared, queue, stops, pool,
                   organelle_vars, solo_vars>>

\* the node Cerebrum.nodes holds for a handle (NoNode: the unwrap panics)
NodeOf(hdl) ==
    IF \E n \in nodes : HandleOf[n] = hdl
    THEN CHOOSE n \in nodes : HandleOf[n] = hdl
    ELSE NoNode

\* a connect that notifies the input only
connect_half(input, output) ==
    /\ Building
    /\ Budget > 0
    /\ Commit(update(St, NodeOf(input), AddOutput(output), NoPlan))
    /\ declared' = Append(declared, <<input, output>>)
    /\ UNCHANGED <<phase, nodes, misc, connections, queue, stops, pool,
                   organelle_vars, solo_vars>>

\* Cerebrum::connect
connect(input, output) ==
    /\ Building
    /\ Budget > 0
    /\ LET st == Each(St, <<[n |-> NodeOf(input), msg |-> AddOutput(output)],
                            [n |-> NodeOf(output), msg |-> AddInput(input)]>>,
                      NoPlan)
       IN  Commit(st)
    /\ declared' = Append(declared, <<input, output>>)
    /\ UNCHANGED <<phase, nodes, misc, connections, queue, stops, pool,
                   organelle_vars, solo_vars>>

\* Cerebrum::run, up to the event loop: every node is updated with Start
run ==
    /\ Building
    /\ \E plan \in Plans(Budget) :
          Commit(Each(St, ToAll(SeqOf(nodes), Start), plan))
    /\ phase' = "run"
    /\ UNCHANGED <<nodes, misc, connections, declared, queue, stops, pool,
                   organelle_vars, solo_vars>>

\* a spawned send future completes: the event enters the channel
SendTask(t) ==
    /\ Running
    /\ t \in tasks
    /\ Len(queue[t.to]) < ChannelBuffer
    /\ queue' = [queue EXCEPT ![t.to] = Append(@, [id |-> t.id, msg |-> t.msg])]
    /\ tasks' = tasks \ {t}
    /\ UNCHANGED <<phase, result, nodes, misc, connections, declared, effector,
                   log, slot, registry, calls, stops, pool,
                   organelle_vars, solo_vars>>

\* take_while letting every event through
take_while_all(msg) == TRUE

\* Cerebrum::run, the predicate of take_while: the stream ends at Stop
take_while(msg) == msg.k # "Stop"

\* Cerebrum::run, one turn of the event loop: take_while ends the stream at
\* Stop and run returns Ok; for_each delivers a Payload to the node
\* registered under dest
RunLoop ==
    /\ Running
    /\ queue[Cerebrum] # <<>>
    /\ LET msg == Head(queue[Cerebrum]).msg
       IN  /\ queue' = [queue EXCEPT ![Cerebrum] = Tail(@)]
           /\ stops' = IF msg.k = "Stop" THEN stops + 1 ELSE stops
           /\ IF ~take_while(msg)
              THEN /\ result' = "Ok"
                   /\ UNCHANGED <<log, slot, registry, effector, tasks, calls>>
              ELSE CASE msg.k = "Payload" ->
                          \E plan \in OnePlans(Budget) :
                              Commit(update(St, NodeOf(msg.dest),
                                            Message(msg.src, msg.m), plan))
                     [] msg.k = "Stop" ->
                          UNCHANGED <<result, log, slot, registry, effector, tasks, calls>>
                     [] OTHER -> Commit(Panic(St))
    /\ UNCHANGED <<phase, nodes, misc, connections, declared, pool,
                   organelle_vars, solo_vars>>

\* actual_src without the re-addressing of the output child
actual_src_kept(c, src, dest) == src

\* actual_src with the output child always presented as the cortex
actual_src_cortex(c, src, dest) ==
    IF src = OutputHdl(c) THEN effector[c].handle ELSE src

\* actual_src with every sender of a departing Payload presented as the cortex
actual_src_departing(c, src, dest) ==
    IF \/ dest = InputHdl(c)
       \/ dest = OutputHdl(c)
       \/ \E n \in misc[c] : HandleOf[n] = dest
    THEN src
    ELSE effector[c].handle

\* Cortex::forward, the source presented for a Payload from src to dest
actual_src(c, src, dest) ==
    IF src = OutputHdl(c)
    THEN IF \/ dest = InputHdl(c)
            \/ dest = OutputHdl(c)
            \/ \E n \in misc[c] : HandleOf[n] = dest
         THEN OutputHdl(c)
         ELSE effector[c].handle
    ELSE src

\* ForwardExternal losing the Payload
ForwardExternal_lost(st, c, id, asrc, dest, m) == st

\* Cortex::forward, the last branch of the dispatch: the destination is not a
\* child, and the Payload goes to the parent through the sender given at Init
ForwardExternal(st, c, id, asrc, dest, m) ==
    sender(st, effector[c], id,
           convert_protocol(Payload(asrc, dest, m), effector[c].ty))

\* Cortex::forward, the Payload branch
ForwardPayload(st, c, id, msg, plan) ==
    LET asrc == actual_src(c, msg.src, msg.dest)
    IN  IF msg.dest = InputHdl(c)
        THEN update(st, InputOf[c], Message(asrc, msg.m), plan)
        ELSE IF msg.dest = OutputHdl(c)
        THEN update(st, OutputOf[c], Message(asrc, msg.m), plan)
        ELSE IF \E n \in misc[c] : HandleOf[n] = msg.dest
        THEN update(st, NodeAt(c, msg.dest), Message(asrc, msg.m), plan)
        ELSE ForwardExternal(st, c, id, asrc, msg.dest, msg.m)

\* ForwardStop swallowing the Stop
ForwardStop_swallowed(st, c, id) == st

\* Cortex::forward, the Stop branch
ForwardStop(st, c, id) == sender(st, effector[c], id, Stop)

\* Cortex::forward applied to one event of the cortex's channel
forward(st, c, id, msg, plan) ==
    CASE msg.k = "Payload" -> ForwardPayload(st, c, id, msg, plan)
      [] msg.k = "Stop" -> ForwardStop(st, c, id)
      [] OTHER -> Panic(st)

\* the closure of queue_rx.for_each in Cortex::init: forward is given the
\* nodes of the cortex under a borrow that ends when forward returns
for_each(st, c, id, msg, plan) ==
    Then(borrow_mut(st, c),
         LAMBDA held : Then(forward(held, c, id, msg, plan),
                            LAMBDA done : release(done, c)))

\* the stream future Cortex::init spawns: one event of the cortex's channel
\* is taken and forwarded
Forward(c) ==
    /\ Running
    /\ effector[c] # NoEff
    /\ queue[c] # <<>>
    /\ queue' = [queue EXCEPT ![c] = Tail(@)]
    /\ \E plan \in OnePlans(Budget) :
          Commit(for_each(St, c, Head(queue[c]).id, Head(queue[c]).msg, plan))
    /\ UNCHANGED <<phase, nodes, misc, connections, declared, stops, pool,
                   organelle_vars, solo_vars>>

----------------------------------------------------------------------------
(* Organelle *)

\* number of connect calls made on the organelle
MaxSynapses == 2

\* the nucleus is a visualizer::Soma, the other somas a probe::Soma and a
\* soma of the embedding program, whose task holds the sender of its Start
Visualizer == "visualizer"
Probe == "probe"
Worker == "worker"

\* an Organelle added as a soma of the organelle, and the nucleus of that
\* inner organelle, a probe::Soma
Inner == "inner"
Nested == "nested"

Uuids == {Visualizer, Probe, Worker, Inner, Nested}

\* a uuid the organelle has never handed out
NoUuid == "u-"

\* Organelle::nucleus
nucleus == Visualizer

\* capacities of main_tx, of the channel of a soma and of soma_tx
MainBuffer == 100
SomaBuffer == 10
SomaTxBuffer == 1

\* the synapse type of the organelle and of each soma
OrganelleSynapse == "T"
SynapseOf == [u \in Uuids |->
                 CASE u = Visualizer -> "UV" [] u = Worker -> "UW" [] OTHER -> "UP"]

\* an impulse: its kind, the synapse type it is expressed in, and a number:
\* for AddDendrite/AddTerminal the connect call that produced it, for Error
\* the cause it carries
Impulse(k, ty, n) == [k |-> k, ty |-> ty, n |-> n]
NoImpulse == Impulse("-", "-", 0)

\* the causes of errors: the error the update of soma u resolved with, and
\* the error the task of soma u failed with
UuidNo(u) ==
    CASE u = Visualizer -> 1 [] u = Probe -> 2 [] u = Worker -> 3
      [] u = Inner -> 4 [] OTHER -> 5
UpdateError(u) == 10 + UuidNo(u)
TaskError(u) == 20 + UuidNo(u)

\* run has returned no error
NoFailure == 0

\* bail!(e) of a run loop: the error returned is the one the impulse carries
bail_unspecific(imp) == NoFailure
bail(imp) == imp.n

\* Impulse::convert_from
convert_from(imp, ty) ==
    IF imp.k = "Start" THEN Impulse("Panic", ty, 0) ELSE [imp EXCEPT !.ty = ty]

\* the closure of rx.for_each in create_soma_channel: Start is rebuilt around
\* a channel of the soma's own type, every other impulse is converted
Relayed(imp, ty) ==
    IF imp.k = "Start" THEN Impulse("Start", ty, 0) ELSE convert_from(imp, ty)

NewSoma == [alive |-> TRUE, probe |-> FALSE, dendrites |-> 0, task |-> "none"]

\* visualizer::Soma::update
VisualizerUpdate(s, imp) ==
    CASE imp.k = "AddTerminal" -> [soma |-> [s EXCEPT !.probe = TRUE], out |-> "Ok"]
      [] imp.k = "Start" ->
            IF s.probe
            THEN [soma |-> [s EXCEPT !.probe = FALSE, !.task = "running"], out |-> "Ok"]
            ELSE [soma |-> s, out |-> "Panic"]
      [] OTHER -> [soma |-> s, out |-> "Err"]

\* probe::Soma::update
ProbeUpdate(s, imp) ==
    CASE imp.k = "AddDendrite" ->
            [soma |-> [s EXCEPT !.dendrites = @ + 1], out |-> "Ok"]
      [] imp.k = "Start" ->
            [soma |-> [s EXCEPT !.dendrites = 0, !.task = "running"], out |-> "Ok"]
      [] OTHER -> [soma |-> s, out |-> "Err"]

\* Soma::update of a soma of the embedding program: it accepts every
\* impulse and spawns its task at Start
WorkerUpdate(s, imp) ==
    IF imp.k = "Start"
    THEN [soma |-> [s EXCEPT !.task = "running"], out |-> "Ok"]
    ELSE [soma |-> s, out |-> "Ok"]

\* Soma::update of the soma added under uuid u
SomaUpdate(u, s, imp) ==
    CASE u = Visualizer -> VisualizerUpdate(s, imp)
      [] u \in {Probe, Nested} -> ProbeUpdate(s, imp)
      [] OTHER -> WorkerUpdate(s, imp)

\* Organelle::new: the nucleus is added
NewOrganelle ==
    /\ organelle = "new"
    /\ somas = {nucleus}
    /\ synapses = <<>>
    /\ main_rx = <<>>
    /\ rx = [u \in Uuids |-> <<>>]
    /\ relay = [u \in Uuids |-> NoImpulse]
    /\ soma_rx = [u \in Uuids |-> <<>>]
    /\ dropped = {}
    /\ soma = [u \in Uuids |-> NewSoma]
    /\ spawned = {}
    /\ impulses = [u \in Uuids |-> <<>>]
    /\ failure = NoFailure
    /\ inner_main = <<>>

\* an add_soma that forgets the somas added before
add_soma_replacing(u) ==
    /\ organelle = "new"
    /\ u \notin somas
    /\ somas' = {u}
    /\ UNCHANGED <<organelle, synapses, main_rx, rx, relay, soma_rx, dropped,
                   soma, spawned, impulses>>
    /\ UNCHANGED <<failure, inner_main>>
    /\ UNCHANGED <<cortical_vars, solo_vars>>

\* Organelle::add_soma (with create_soma_channel)
add_soma(u) ==
    /\ organelle = "new"
    /\ u \notin somas
    /\ somas' = somas \cup {u}
    /\ UNCHANGED <<organelle, synapses, main_rx, rx, relay, soma_rx, dropped,
                   soma, spawned, impulses>>
    /\ UNCHANGED <<failure, inner_main>>
    /\ UNCHANGED <<cortical_vars, solo_vars>>

\* a connect that spawns the send to the dendrite before it looks up the
\* terminal
OrganelleConnect_eager(dendrite, terminal) ==
    /\ organelle = "new"
    /\ Len(synapses) < MaxSynapses
    /\ synapses' = Append(synapses,
                           <<dendrite, terminal,
                             IF dendrite \in somas /\ terminal \in somas
                             THEN "Ok" ELSE "Err">>)
    /\ spawned' =
          IF dendrite \notin somas THEN spawned
          ELSE spawned \cup
                 {[to |-> dendrite,
                   imp |-> Impulse("AddTerminal", OrganelleSynapse, Len(synapses) + 1)]}
                 \cup (IF terminal \notin somas THEN {}
                       ELSE {[to |-> terminal,
                              imp |-> Impulse("AddDendrite", OrganelleSynapse,
                                              Len(synapses) + 1)]})
    /\ UNCHANGED <<organelle, somas, main_rx, rx, relay, soma_rx, dropped, soma,
                   impulses>>
    /\ UNCHANGED <<failure, inner_main>>
    /\ UNCHANGED <<cortical_vars, solo_vars>>

\* Organelle::connect: an unknown uuid bails before anything is spawned;
\* otherwise two independent send futures are spawned
OrganelleConnect(dendrite, terminal) ==
    /\ organelle = "new"
    /\ Len(synapses) < MaxSynapses
    /\ synapses' = Append(synapses,
                           <<dendrite, terminal,
                             IF dendrite \in somas /\ terminal \in somas
                             THEN "Ok" ELSE "Err">>)
    /\ spawned' =
          IF dendrite \notin somas \/ terminal \notin somas THEN spawned
          ELSE spawned \cup
                 {[to |-> dendrite,
                   imp |-> Impulse("AddTerminal", OrganelleSynapse, Len(synapses) + 1)],
                  [to |-> terminal,
                   imp |-> Impulse("AddDendrite", OrganelleSynapse, Len(synapses) + 1)]}
    /\ UNCHANGED <<organelle, somas, main_rx, rx, relay, soma_rx, dropped, soma,
                   impulses>>
    /\ UNCHANGED <<failure, inner_main>>
    /\ UNCHANGED <<cortical_vars, solo_vars>>

\* Organelle::run up to its loop: Start is sent on main_tx
OrganelleRun ==
    /\ organelle = "new"
    /\ organelle' = "running"
    /\ main_rx' = Append(main_rx, Impulse("Start", OrganelleSynapse, 0))
    /\ UNCHANGED <<somas, synapses, rx, relay, soma_rx, dropped, soma, spawned,
                   impulses>>
    /\ UNCHANGED <<failure, inner_main>>
    /\ UNCHANGED <<cortical_vars, solo_vars>>

\* Organelle::start_all: one send future per soma
start_all == spawned \cup {[to |-> u, imp |-> Impulse("Start", OrganelleSynapse, 0)] :
                              u \in somas}

\* Organelle::run, one turn of its loop: Error bails, Stop breaks, any other
\* impulse goes to Organelle::update, which starts all somas on Start and
\* sends AddDendrite/AddTerminal on to the nucleus
OrganelleLoop ==
    /\ organelle = "running"
    /\ main_rx # <<>>
    /\ LET imp == Head(main_rx)
       IN  /\ main_rx' = Tail(main_rx)
           /\ CASE imp.k = "Error" ->
                     /\ organelle' = "Err"
                     /\ failure' = bail(imp)
                     /\ UNCHANGED <<rx, spawned>>
                [] imp.k = "Stop" ->
                     organelle' = "Ok" /\ UNCHANGED <<rx, spawned, failure>>
                [] imp.k = "Start" ->
                     spawned' = start_all /\ UNCHANGED <<organelle, rx, failure>>
                [] imp.k \in {"AddDendrite", "AddTerminal"} ->
                     /\ Len(rx[nucleus]) < SomaBuffer
                     /\ rx' = [rx EXCEPT ![nucleus] = Append(@, imp)]
                     /\ UNCHANGED <<organelle, spawned, failure>>
                [] OTHER ->
                     organelle' = "Panic" /\ UNCHANGED <<rx, spawned, failure>>
    /\ UNCHANGED <<somas, synapses, relay, soma_rx, dropped, soma, impulses>>
    /\ UNCHANGED inner_main
    /\ UNCHANGED <<cortical_vars, solo_vars>>

\* the somas that own a channel: those of the organelle and, inside an
\* organelle it hosts, the nucleus Organelle::new added
SomaChannels == somas \cup (IF Inner \in somas THEN {Nested} ELSE {})

\* a spawned send future completes: its impulse enters the channel of the
\* soma when there is room; on a dropped channel the send fails
OrganelleSend(t) ==
    /\ organelle = "running"
    /\ t \in spawned
    /\ spawned' = spawned \ {t}
    /\ IF t.to \in dropped THEN UNCHANGED rx
       ELSE /\ Len(rx[t.to]) < SomaBuffer
            /\ rx' = [rx EXCEPT ![t.to] = Append(@, t.imp)]
    /\ UNCHANGED <<organelle, somas, synapses, main_rx, relay, soma_rx, dropped,
                   soma, impulses>>
    /\ UNCHANGED <<failure, inner_main>>
    /\ UNCHANGED <<cortical_vars, solo_vars>>

\* create_soma_channel, the stream rx.for_each: the next impulse is taken and
\* its send on soma_tx begins
RelayTake(u) ==
    /\ organelle = "running"
    /\ u \in SomaChannels \ dropped
    /\ relay[u] = NoImpulse
    /\ rx[u] # <<>>
    /\ relay' = [relay EXCEPT ![u] = Relayed(Head(rx[u]), SynapseOf[u])]
    /\ rx' = [rx EXCEPT ![u] = Tail(@)]
    /\ UNCHANGED <<organelle, somas, synapses, main_rx, soma_rx, dropped, soma,
                   spawned, impulses>>
    /\ UNCHANGED <<failure, inner_main>>
    /\ UNCHANGED <<cortical_vars, solo_vars>>

\* create_soma_channel, the send on soma_tx completes when soma_rx has room;
\* when run_soma has ended it fails, the stream ends and rx is dropped
RelayPut(u) ==
    /\ organelle = "running"
    /\ relay[u] # NoImpulse
    /\ relay' = [relay EXCEPT ![u] = NoImpulse]
    /\ IF soma[u].alive
       THEN /\ Len(soma_rx[u]) < SomaTxBuffer
            /\ soma_rx' = [soma_rx EXCEPT ![u] = Append(@, relay[u])]
            /\ UNCHANGED <<rx, dropped>>
       ELSE /\ dropped' = dropped \cup {u}
            /\ rx' = [rx EXCEPT ![u] = <<>>]
            /\ UNCHANGED soma_rx
    /\ UNCHANGED <<organelle, somas, synapses, main_rx, soma, spawned, impulses>>
    /\ UNCHANGED <<failure, inner_main>>
    /\ UNCHANGED <<cortical_vars, solo_vars>>

\* run_soma, one turn: the soma is updated with the next impulse; an error
\* ends run_soma and add_soma's or_else sends Error on the main_tx of the
\* organelle the soma was added to; a panic unwinds the reactor
run_soma(u) ==
    /\ organelle = "running"
    /\ u # Inner
    /\ soma[u].alive
    /\ soma_rx[u] # <<>>
    /\ LET imp == Head(soma_rx[u])
           r   == SomaUpdate(u, soma[u], imp)
       IN  /\ soma_rx' = [soma_rx EXCEPT ![u] = Tail(@)]
           /\ impulses' = [impulses EXCEPT ![u] = Append(@, imp)]
           /\ CASE r.out = "Ok" ->
                     /\ soma' = [soma EXCEPT ![u] = r.soma]
                     /\ UNCHANGED <<organelle, main_rx, inner_main>>
                [] r.out = "Err" ->
                     /\ soma' = [soma EXCEPT ![u].alive = FALSE]
                     /\ IF u = Nested
                        THEN /\ Len(inner_main) < MainBuffer
                             /\ inner_main' =
                                   Append(inner_main,
                                          Impulse("Error", SynapseOf[Inner], UpdateError(u)))
                             /\ UNCHANGED main_rx
                        ELSE /\ Len(main_rx) < MainBuffer
                             /\ main_rx' =
                                   Append(main_rx,
                                          Impulse("Error", OrganelleSynapse, UpdateError(u)))
                             /\ UNCHANGED inner_main
                     /\ UNCHANGED organelle
                [] OTHER ->
                     /\ organelle' = "Panic"
                     /\ UNCHANGED <<soma, main_rx, inner_main>>
    /\ UNCHANGED <<somas, synapses, rx, relay, dropped, spawned>>
    /\ UNCHANGED failure
    /\ UNCHANGED <<cortical_vars, solo_vars>>

\* run_soma of an organelle added as a soma, one turn: Organelle::update
\* sends AddDendrite/AddTerminal on to the nucleus of that organelle, and on
\* Start spawns the sends of start_all for its somas
OrganelleUpdate ==
    /\ organelle = "running"
    /\ soma[Inner].alive
    /\ soma_rx[Inner] # <<>>
    /\ LET imp == Head(soma_rx[Inner])
       IN  /\ soma_rx' = [soma_rx EXCEPT ![Inner] = Tail(@)]
           /\ impulses' = [impulses EXCEPT ![Inner] = Append(@, imp)]
           /\ CASE imp.k \in {"AddDendrite", "AddTerminal"} ->
                     /\ Len(rx[Nested]) < SomaBuffer
                     /\ rx' = [rx EXCEPT ![Nested] = Append(@, imp)]
                     /\ UNCHANGED <<organelle, spawned>>
                [] imp.k = "Start" ->
                     /\ spawned' = spawned \cup {[to |-> Nested, imp |-> imp]}
                     /\ UNCHANGED <<organelle, rx>>
                [] OTHER -> organelle' = "Panic" /\ UNCHANGED <<rx, spawned>>
    /\ UNCHANGED <<somas, synapses, main_rx, relay, dropped, soma>>
    /\ UNCHANGED <<failure, inner_main>>
    /\ UNCHANGED <<cortical_vars, solo_vars>>

\* the task a soma spawned at Start (VisualizerTask, ProbeTask) fails: its
\* or_else sends Error on main_tx
TaskFails(u) ==
    /\ organelle = "running"
    /\ soma[u].task = "running"
    /\ Len(main_rx) < MainBuffer
    /\ soma' = [soma EXCEPT ![u].task = "failed"]
    /\ main_rx' = Append(main_rx, Impulse("Error", OrganelleSynapse, TaskError(u)))
    /\ UNCHANGED <<organelle, somas, synapses, rx, relay, soma_rx, dropped,
                   spawned, impulses>>
    /\ UNCHANGED <<failure, inner_main>>
    /\ UNCHANGED <<cortical_vars, solo_vars>>

\* the task of a soma of the embedding program sends Stop on the sender it
\* was given at Start
TaskStops(u) ==
    /\ organelle = "running"
    /\ u = Worker
    /\ soma[u].task = "running"
    /\ Len(main_rx) < MainBuffer
    /\ soma' = [soma EXCEPT ![u].task = "stopped"]
    /\ main_rx' = Append(main_rx, Impulse("Stop", OrganelleSynapse, 0))
    /\ UNCHANGED <<organelle, somas, synapses, rx, relay, soma_rx, dropped,
                   spawned, impulses>>
    /\ UNCHANGED <<failure, inner_main>>
    /\ UNCHANGED <<cortical_vars, solo_vars>>

\* number of impulses the task of a soma driven by Soma::run sends
MaxImpulses == 4

\* capacity of the channel of the default Soma::run
SoloBuffer == 1

\* a soma of kind u handed to the default Soma::run (NoUuid: the program
\* runs no soma on its own)
NewSolo(u) ==
    /\ solo = [kind |-> u, state |-> "new", soma |-> NewSoma,
               failure |-> NoFailure, updates |-> <<>>, sent |-> 0]
    /\ solo_rx = <<>>

\* the default Soma::run up to its loop: Start is sent on the new channel
SomaRun ==
    /\ solo.kind \in Uuids
    /\ solo.state = "new"
    /\ solo' = [solo EXCEPT !.state = "running"]
    /\ solo_rx' = <<Impulse("Start", SynapseOf[solo.kind], 0)>>
    /\ UNCHANGED <<cortical_vars, organelle_vars>>

\* a loop that hands every impulse to update
SomaLoop_unfiltered ==
    /\ solo.state = "running"
    /\ solo_rx # <<>>
    /\ LET imp == Head(solo_rx)
           r   == SomaUpdate(solo.kind, solo.soma, imp)
       IN  /\ solo_rx' = Tail(solo_rx)
           /\ solo' =
                 CASE r.out = "Ok" ->
                        [solo EXCEPT !.soma = r.soma, !.updates = Append(@, imp)]
                   [] r.out = "Err" ->
                        [solo EXCEPT !.state = "Err",
                                     !.failure = UpdateError(solo.kind),
                                     !.updates = Append(@, imp)]
                   [] OTHER -> [solo EXCEPT !.state = "Panic"]
    /\ UNCHANGED <<cortical_vars, organelle_vars>>

\* one turn of the loop of the default Soma::run
SomaLoop ==
    /\ solo.state = "running"
    /\ solo_rx # <<>>
    /\ LET imp == Head(solo_rx)
           r   == SomaUpdate(solo.kind, solo.soma, imp)
       IN  /\ solo_rx' = Tail(solo_rx)
           /\ solo' =
                 CASE imp.k = "Error" ->
                        [solo EXCEPT !.state = "Err", !.failure = bail(imp)]
                   [] imp.k = "Stop" -> [solo EXCEPT !.state = "Ok"]
                   [] r.out = "Ok" ->
                        [solo EXCEPT !.soma = r.soma, !.updates = Append(@, imp)]
                   [] r.out = "Err" ->
                        [solo EXCEPT !.state = "Err",
                                     !.failure = UpdateError(solo.kind),
                                     !.updates = Append(@, imp)]
                   [] OTHER -> [solo EXCEPT !.state = "Panic"]
    /\ UNCHANGED <<cortical_vars, organelle_vars>>

\* the task the soma spawned at Start sends an impulse on the sender it got
\* with Start; the send waits while the channel is full
SomaTaskSends(k) ==
    /\ solo.state = "running"
    /\ solo.soma.task = "running"
    /\ solo.sent < MaxImpulses
    /\ Len(solo_rx) < SoloBuffer
    /\ solo' = [solo EXCEPT !.sent = @ + 1]
    /\ solo_rx' = Append(solo_rx,
                         Impulse(k, SynapseOf[solo.kind],
                                 IF k = "Error" THEN TaskError(solo.kind)
                                 ELSE solo.sent + 1))
    /\ UNCHANGED <<cortical_vars, organelle_vars>>

\* the task of a soma of the embedding program ends: the sender it got with
\* Start, the only sender of the channel left, is dropped
SomaTaskEnds ==
    /\ solo.state = "running"
    /\ solo.kind = Worker
    /\ solo.soma.task = "running"
    /\ solo' = [solo EXCEPT !.soma.task = "ended"]
    /\ UNCHANGED solo_rx
    /\ UNCHANGED <<cortical_vars, organelle_vars>>

\* the loop of the default Soma::run finds its stream ended: the channel is
\* empty and has no sender left, the loop is left and run returns Ok
SomaStreamEnds ==
    /\ solo.state = "running"
    /\ solo_rx = <<>>
    /\ solo.soma.task = "ended"
    /\ solo' = [solo EXCEPT !.state = "Ok"]
    /\ UNCHANGED solo_rx
    /\ UNCHANGED <<cortical_vars, organelle_vars>>

\* an organelle of the somas of this crate
CrateSomas == {Visualizer, Probe}

NextOrganelle ==
    \/ \E u \in CrateSomas : add_soma(u)
    \/ \E d, t \in CrateSomas \cup {NoUuid} : OrganelleConnect(d, t)
    \/ OrganelleRun
    \/ OrganelleLoop
    \/ \E t \in spawned : OrganelleSend(t)
    \/ \E u \in Uuids : RelayTake(u)
    \/ \E u \in Uuids : RelayPut(u)
    \/ \E u \in Uuids : run_soma(u)
    \/ \E u \in Uuids : TaskFails(u)

\* an organelle of the visualizer and a soma of the embedding program
ProgramSomas == {Visualizer, Worker}

NextProgram ==
    \/ \E u \in ProgramSomas : add_soma(u)
    \/ \E d, t \in ProgramSomas \cup {NoUuid} : OrganelleConnect(d, t)
    \/ OrganelleRun
    \/ OrganelleLoop
    \/ \E t \in spawned : OrganelleSend(t)
    \/ \E u \in Uuids : RelayTake(u)
    \/ \E u \in Uuids : RelayPut(u)
    \/ \E u \in Uuids : run_soma(u)
    \/ \E u \in Uuids : TaskFails(u)
    \/ \E u \in Uuids : TaskStops(u)

----------------------------------------------------------------------------

\* nothing is built yet
Fresh ==
    /\ phase = "build"
    /\ result = "pending"
    /\ nodes = {}
    /\ misc = [c \in Cortexes |-> {}]
    /\ connections = [c \in Cortexes |-> <<>>]
    /\ declared = <<>>
    /\ effector = [n \in Nodes |-> NoEff]
    /\ log = [n \in Nodes |-> <<>>]
    /\ slot = [n \in Nodes |-> "full"]
    /\ registry = [c \in Cortexes |-> "free"]
    /\ queue = [ch \in Channels |-> <<>>]
    /\ tasks = {}
    /\ calls = <<>>
    /\ stops = 0

\* the pairs the integrator may connect in a registry whose handles are H:
\* two of its handles, or one of them and a handle it does not own
Wires(H) ==
    {w \in (H \cup {Stranger}) \X (H \cup {Stranger}) :
        w[1] # w[2] /\ (w[1] \in H \/ w[2] \in H)}

\* the handles Cortex::new and Cortex::add_lobe have given out for cortex c
CortexHandles(c) == {InputHdl(c), OutputHdl(c)} \cup {HandleOf[n] : n \in misc[c]}

\* the handles Cerebrum::add_lobe has given out
CerebrumHandles == {HandleOf[n] : n \in nodes}

Next ==
    \/ \E c \in Cortexes, n \in Leaves : CortexAddLobe(c, n)
    \/ \E c \in Cortexes : \E w \in Wires(CortexHandles(c)) : CortexConnect(c, w[1], w[2])
    \/ \E n \in Nodes : add_lobe(n)
    \/ \E w \in Wires(CerebrumHandles) : connect(w[1], w[2])
    \/ run
    \/ \E t \in tasks : SendTask(t)
    \/ RunLoop
    \/ \E c \in Cortexes : Forward(c)

\* a cortex with an interior lobe beside a plain lobe
Init == Fresh /\ pool = {"A", "T"} /\ NewOrganelle /\ NewSolo(NoUuid)

Spec == Init /\ [][Next]_vars

\* the network of test_cortex; the integrator wires it as it likes
InitTest == Fresh /\ pool = {"X"} /\ NewOrganelle /\ NewSolo(NoUuid)

NextTest ==
    \/ \E w \in Wires(CortexHandles("X")) : CortexConnect("X", w[1], w[2])
    \/ add_lobe("X")
    \/ \E w \in Wires(CerebrumHandles) : connect(w[1], w[2])
    \/ run
    \/ \E t \in tasks : SendTask(t)
    \/ RunLoop
    \/ Forward("X")

SpecTest == InitTest /\ [][NextTest]_vars

\* cortexes nested three deep
InitNested == Fresh /\ pool = {"N"} /\ NewOrganelle /\ NewSolo(NoUuid)

SpecNested == InitNested /\ [][Next]_vars

\* core.run: while the future of Cerebrum::run is pending the reactor keeps
\* polling the futures that are ready (the spawned sends, the forwarding
\* streams of the cortexes, the loop of the cerebrum)
Turn ==
    \/ \E t \in tasks : SendTask(t)
    \/ RunLoop
    \/ \E c \in Cortexes : Forward(c)

SpecNestedFair == SpecNested /\ WF_vars(Turn)

\* a cortex beside a plain lobe that may send twice during one update
InitBurst == Fresh /\ pool = {"A", "B"} /\ NewOrganelle /\ NewSolo(NoUuid)

SpecBurst == InitBurst /\ [][Next]_vars

\* an organelle on its own
InitOrganelle == Fresh /\ pool = {} /\ NewOrganelle /\ NewSolo(NoUuid)

SpecOrganelle == InitOrganelle /\ [][NextOrganelle]_vars

\* an organelle of the visualizer and a soma of the embedding program
SpecProgram == InitOrganelle /\ [][NextProgram]_vars

\* the program builds no organelle
NoOrganelle ==
    /\ organelle = "none"
    /\ somas = {}
    /\ synapses = <<>>
    /\ main_rx = <<>>
    /\ rx = [u \in Uuids |-> <<>>]
    /\ relay = [u \in Uuids |-> NoImpulse]
    /\ soma_rx = [u \in Uuids |-> <<>>]
    /\ dropped = {}
    /\ soma = [u \in Uuids |-> NewSoma]
    /\ spawned = {}
    /\ impulses = [u \in Uuids |-> <<>>]
    /\ failure = NoFailure
    /\ inner_main = <<>>

\* an organelle of the visualizer and an organelle of a probe
HostSomas == {Visualizer, Inner}

NextHosted ==
    \/ \E u \in HostSomas : add_soma(u)
    \/ \E d, t \in HostSomas : OrganelleConnect(d, t)
    \/ OrganelleRun
    \/ OrganelleLoop
    \/ \E t \in spawned : OrganelleSend(t)
    \/ \E u \in Uuids : RelayTake(u)
    \/ \E u \in Uuids : RelayPut(u)
    \/ \E u \in Uuids : run_soma(u)
    \/ OrganelleUpdate
    \/ \E u \in Uuids : TaskFails(u)

SpecHosted == InitOrganelle /\ [][NextHosted]_vars

\* core.run: while the future of Organelle::run is pending the reactor keeps
\* polling the futures that are ready; that a task fails is not its doing
ReactorTurn ==
    \/ OrganelleLoop
    \/ \E t \in spawned : OrganelleSend(t)
    \/ \E u \in Uuids : RelayTake(u)
    \/ \E u \in Uuids : RelayPut(u)
    \/ \E u \in Uuids : run_soma(u)
    \/ OrganelleUpdate

SpecHostedFair == SpecHosted /\ WF_vars(ReactorTurn)

\* the two run loops: the program hands core.run either Organelle::run of an
\* organelle it built or the default Soma::run of a soma on its own
InitRunLoops ==
    /\ Fresh
    /\ pool = {}
    /\ \/ NewOrganelle /\ NewSolo(NoUuid)
       \/ NoOrganelle /\ \E u \in Uuids : NewSolo(u)

NextRunLoops ==
    \/ \E u \in ProgramSomas : add_soma(u)
    \/ \E d, t \in ProgramSomas \cup {NoUuid} : OrganelleConnect(d, t)
    \/ OrganelleRun
    \/ OrganelleLoop
    \/ \E t \in spawned : OrganelleSend(t)
    \/ \E u \in Uuids : RelayTake(u)
    \/ \E u \in Uuids : RelayPut(u)
    \/ \E u \in Uuids : run_soma(u)
    \/ \E u \in Uuids : TaskFails(u)
    \/ \E u \in Uuids : TaskStops(u)
    \/ SomaRun
    \/ SomaLoop
    \/ \E k \in {"AddDendrite", "AddTerminal", "Stop", "Error"} : SomaTaskSends(k)
    \/ SomaTaskEnds
    \/ SomaStreamEnds

SpecRunLoops == InitRunLoops /\ [][NextRunLoops]_vars

----------------------------------------------------------------------------
(* Vocabulary of the properties *)

\* the children a cortex holds
Children(c) == {InputOf[c], OutputOf[c]} \cup misc[c]

\* dest is known inside cortex c: the input child, the output child or a
\* registered interior child
Internal(c, dest) == dest \in {HandleOf[n] : n \in Children(c)}

\* the child of c registered under dest
ChildAt(c, dest) == CHOOSE n \in Children(c) : HandleOf[n] = dest

\* the channel of the parent of cortex c
ParentChannel(c) == IF ParentOf[c] = NoNode THEN Cerebrum ELSE ParentOf[c]

\* this step takes the first event of the channel of cortex c
Takes(c) == queue[c] # <<>> /\ queue'[c] = Tail(queue[c])

\* this step takes a Payload from the channel of cortex c
TakesPayload(c) == Takes(c) /\ Head(queue[c]).msg.k = "Payload"

\* the futures this step spawns
Spawned == tasks' \ tasks

\* this step updates lobe n with exactly one more event, msg
Updated(n, msg) == log'[n] = Append(log[n], msg)

----------------------------------------------------------------------------
(* Source re-addressing at the boundary of a cortex *)

\* C1: whenever the output child O of a cortex with handle C sends a Payload
\* to a destination that is neither the input child, nor the output child, nor
\* a registered interior child, the Payload forwarded to the parent's channel
\* carries source C, and not O's own handle.
C1_OutputLeavesAsCortex ==
    [][\A c \in Cortexes :
          LET e == Head(queue[c])
          IN  /\ TakesPayload(c)
              /\ e.msg.src = OutputHdl(c)
              /\ ~Internal(c, e.msg.dest)
              => \E t \in Spawned :
                    /\ t.to = ParentChannel(c)
                    /\ t.id = e.id
                    /\ t.msg.k = "Payload"
                    /\ t.msg.src = HandleOf[c]
                    /\ t.msg.src # OutputHdl(c)]_vars

\* a Payload of the output child of a cortex is on its way to the parent's
\* channel, presented as coming from the cortex
C1_Witness ==
    \E c \in Cortexes : \E t \in tasks :
        /\ t.to = ParentChannel(c)
        /\ t.msg.k = "Payload"
        /\ t.msg.src = HandleOf[c]
        /\ calls[t.id].by = OutputOf[c]

\* C2: whenever the output child O of a cortex sends a Payload to the input
\* child, to itself or to a registered interior child, the recipient is updated
\* with Message(src, m) where src is O's own handle, never the cortex's.
C2_OutputStaysInside ==
    [][\A c \in Cortexes :
          LET e == Head(queue[c])
          IN  /\ TakesPayload(c)
              /\ e.msg.src = OutputHdl(c)
              /\ Internal(c, e.msg.dest)
              => LET n == ChildAt(c, e.msg.dest)
                 IN  /\ Updated(n, Message(OutputHdl(c), Into(e.msg.m, MsgTypeOf[n])))
                     /\ OutputHdl(c) # HandleOf[c]]_vars

\* an interior child has received a message of the output child
C2_Witness ==
    \E c \in Cortexes : \E n \in misc[c] : \E i \in 1..Len(log[n]) :
        /\ log[n][i].k = "Message"
        /\ log[n][i].src = OutputHdl(c)
        /\ calls[log[n][i].m.v].by = OutputOf[c]

\* C3: for every Payload on a cortex's channel whose source is not the output
\* child, the source presented to the internal recipient, or carried by the
\* Payload forwarded to the parent, is the original source.
C3_OtherSourcesUnchanged ==
    [][\A c \in Cortexes :
          LET e == Head(queue[c])
          IN  /\ TakesPayload(c)
              /\ e.msg.src # OutputHdl(c)
              => IF Internal(c, e.msg.dest)
                 THEN LET n == ChildAt(c, e.msg.dest)
                      IN  Updated(n, Message(e.msg.src, Into(e.msg.m, MsgTypeOf[n])))
                 ELSE \E t \in Spawned :
                         /\ t.to = ParentChannel(c)
                         /\ t.id = e.id
                         /\ t.msg.k = "Payload"
                         /\ t.msg.src = e.msg.src]_vars

\* a Payload of the input child of a cortex is on its way to the parent's
\* channel, still carrying the input child's handle
C3_Witness ==
    \E c \in Cortexes : \E t \in tasks :
        /\ t.to = ParentChannel(c)
        /\ t.msg.k = "Payload"
        /\ t.msg.src = InputHdl(c)
        /\ calls[t.id].by = InputOf[c]

----------------------------------------------------------------------------
(* Dispatch by destination *)

\* the source Cortex::forward is specified to present
ApparentSrc(c, src, dest) ==
    IF src = OutputHdl(c) /\ ~Internal(c, dest) THEN HandleOf[c] ELSE src

\* C4: every Payload(src, dest, m) taken from a cortex's channel is handled in
\* exactly one way: delivered as Message to the child registered under dest
\* (input, output or interior), and otherwise forwarded to the parent as
\* Payload(apparent_src, dest, converted m); it is forwarded if and only if
\* dest is not known internally, and no child other than the destination is
\* updated.
C4_ExactlyOneWay ==
    [][\A c \in Cortexes :
          LET e    == Head(queue[c])
              asrc == ApparentSrc(c, e.msg.src, e.msg.dest)
              fwd  == [to |-> ParentChannel(c), id |-> e.id,
                       msg |-> Payload(asrc, e.msg.dest, Into(e.msg.m, NetTypeOf(c)))]
          IN  TakesPayload(c)
              => IF Internal(c, e.msg.dest)
                 THEN LET n == ChildAt(c, e.msg.dest)
                      IN  /\ Updated(n, Message(asrc, Into(e.msg.m, MsgTypeOf[n])))
                          /\ \A x \in Children(c) \ {n} : log'[x] = log[x]
                          /\ \A t \in Spawned : t.to # ParentChannel(c)
                 ELSE /\ Spawned = {fwd}
                      /\ log' = log]_vars

\* a Payload that an interior child sent to a lobe outside the cortex is on
\* its way to the parent's channel, converted to the parent's message type
C4_Witness ==
    \E c \in Cortexes : \E t \in tasks :
        /\ t.to = ParentChannel(c)
        /\ t.msg.k = "Payload"
        /\ calls[t.id].by \in misc[c]
        /\ t.msg.dest = HandleOf["T"]
        /\ t.msg.m.ty = NetTypeOf(c)
        /\ t.msg.m.ty # MsgTypeOf[c]

\* C5: every Stop taken from a cortex's channel is forwarded to the parent's
\* channel as Stop, and forwarding it updates no child.
C5_StopForwarded ==
    [][\A c \in Cortexes :
          Takes(c) /\ Head(queue[c]).msg.k = "Stop"
          => /\ Spawned = {[to |-> ParentChannel(c), id |-> Head(queue[c]).id,
                            msg |-> Stop]}
             /\ log' = log]_vars

\* the Stop of a child of a cortex is on its way to the parent's channel
C5_Witness ==
    \E c \in Cortexes : \E t \in tasks :
        /\ t.to = ParentChannel(c)
        /\ t.msg.k = "Stop"
        /\ calls[t.id].by \in Children(c)

----------------------------------------------------------------------------
(* Shutdown *)

\* some user lobe has called stop() on its effector
StopCalled == \E i \in DOMAIN calls : calls[i].do = "Stop"

\* some user lobe has addressed a handle that no registry owns
Misaddressed == \E i \in DOMAIN calls : calls[i].dest = Stranger

C7_NothingAfterStop ==
    /\ [](stops > 0 => result = "Ok")
    /\ [][stops > 0 => log' = log /\ queue' = queue /\ result' = "Ok"]_vars

\* run has returned Ok and a Payload is left in the cerebrum's channel
C7_Witness ==
    /\ stops > 0
    /\ result = "Ok"
    /\ queue[Cerebrum] # <<>>
    /\ Head(queue[Cerebrum]).msg.k = "Payload"

----------------------------------------------------------------------------
(* Order of the control events *)

\* the lobes of the network the cerebrum holds
InNetwork == {n \in Present : TopOf[n] \in nodes}

\* C8: for every lobe, whether added to the cerebrum or hosted as input, output
\* or interior child of a cortex, the first event its update observes is Init,
\* and Init is observed exactly once.
C8_InitFirstAndOnce ==
    \A n \in Nodes :
        log[n] # <<>> =>
            /\ log[n][1].k = "Init"
            /\ \A i \in 2..Len(log[n]) : log[n][i].k # "Init"

\* a cortex with an interior child and a plain lobe have been added, and each
\* of the lobes has observed an event after its Init
C8_Witness ==
    \E c \in Cortexes :
        /\ misc[c] # {}
        /\ \A n \in {c, "T"} \cup Children(c) : Len(log[n]) >= 2

AllHandles == {HandleOf[n] : n \in Nodes} \cup {Stranger}

\* the connections declared in the registry that holds lobe n
ConnectionsAround(n) ==
    IF ParentOf[n] = NoNode THEN declared ELSE connections[ParentOf[n]]

RECURSIVE Notifications(_, _, _)
\* how many events k (AddInput or AddOutput) naming handle h the declared
\* connections produce for lobe n: those of its own registry, and those its
\* cortex passes down to its input child (AddInput) or output child (AddOutput)
Notifications(n, k, h) ==
    LET conns == ConnectionsAround(n)
        own   == {i \in DOMAIN conns :
                    IF k = "AddOutput"
                    THEN conns[i][1] = HandleOf[n] /\ conns[i][2] = h
                    ELSE conns[i][2] = HandleOf[n] /\ conns[i][1] = h}
        p     == ParentOf[n]
    IN  Cardinality(own)
        + IF p # NoNode /\ \/ (k = "AddInput" /\ n = InputOf[p])
                           \/ (k = "AddOutput" /\ n = OutputOf[p])
          THEN Notifications(p, k, h)
          ELSE 0

\* C9: in a run of the cerebrum, every top-level lobe and every input, output
\* and interior child of every cortex receives Start exactly once, and only
\* after every AddInput/AddOutput that the connections declared before run
\* produce for it.
C9_StartOnceAfterWiring ==
    phase = "run" =>
        \A n \in InNetwork :
            LET S == {i \in DOMAIN log[n] : log[n][i].k = "Start"}
            IN  /\ Cardinality(S) = 1
                /\ \A p \in S :
                      /\ \A j \in DOMAIN log[n] :
                            log[n][j].k \in {"AddInput", "AddOutput"} => j < p
                      /\ \A k \in {"AddInput", "AddOutput"} : \A h \in AllHandles :
                            Cardinality({j \in 1..(p - 1) :
                                            log[n][j].k = k /\ log[n][j].h = h})
                                = Notifications(n, k, h)

\* the cerebrum runs a network with a connection declared on the cerebrum and
\* a connection declared on a cortex that has an interior child
C9_Witness ==
    /\ phase = "run"
    /\ declared # <<>>
    /\ \E c \in Cortexes : connections[c] # <<>> /\ misc[c] # {} /\ c \in InNetwork

----------------------------------------------------------------------------
(* Organelle: Start and the wiring *)

\* the impulses the connect calls made before run produce for soma u
Wiring(u) ==
    {Impulse("AddTerminal", SynapseOf[u], n) :
        n \in {i \in DOMAIN synapses : synapses[i][1] = u /\ synapses[i][3] = "Ok"}}
    \cup
    {Impulse("AddDendrite", SynapseOf[u], n) :
        n \in {i \in DOMAIN synapses : synapses[i][2] = u /\ synapses[i][3] = "Ok"}}

\* C10 as stated: in an Organelle, every soma receives Start only after it has
\* received every AddDendrite/AddTerminal impulse produced by the connect calls
\* made before the organelle was started, whatever the order in which the
\* spawned send futures complete.
C10_StartAfterWiring ==
    \A u \in Uuids : \A i \in DOMAIN impulses[u] :
        impulses[u][i].k = "Start" =>
            \A w \in Wiring(u) : \E j \in 1..(i - 1) : impulses[u][j] = w

----------------------------------------------------------------------------
(* The effectors a cortex hands to its children *)

\* C11 as stated: on Init a cortex initializes its input child, its output
\* child and every interior child with an effector whose handle is the handle
\* the child is registered under (the value of get_input, get_output or
\* add_lobe), and whose sends go to the internal channel of the cortex.
C11_ChildEffectorIsRegisteredHandle ==
    \A c \in Cortexes : \A n \in Children(c) :
        effector[n] # NoEff =>
            /\ effector[n].handle = HandleOf[n]
            /\ effector[n].chan = c

----------------------------------------------------------------------------
(* Delivery at the cerebrum *)

\* the effector calls made in this step
NewCalls == (Len(calls) + 1)..Len(calls')

\* lobe n was handed to the cerebrum itself
TopLevel(n) == ParentOf[n] = NoNode

\* C12: at the cerebrum, a send(dest, m) by a top-level lobe with handle h
\* spawns the delivery of Payload(h, dest, m) to the cerebrum's channel; taking
\* that Payload from the channel updates the node registered under dest exactly
\* once with Message(h, m), and no other node is updated.
C12_SendReachesExactlyDest ==
    [][/\ \A i \in NewCalls :
             TopLevel(calls'[i].by) /\ calls'[i].do = "Payload"
             => [to |-> Cerebrum, id |-> i,
                 msg |-> Payload(HandleOf[calls'[i].by], calls'[i].dest,
                                 [ty |-> CerebrumType, v |-> i, c |-> Body])] \in Spawned
       /\ LET e == Head(queue[Cerebrum])
              h == HandleOf[calls[e.id].by]
              n == NodeOf(e.msg.dest)
          IN  /\ Running
              /\ Takes(Cerebrum)
              /\ e.msg.k = "Payload"
              /\ TopLevel(calls[e.id].by)
              /\ n # NoNode
              => /\ e.msg.src = h
                 /\ Updated(n, Message(h, Into(e.msg.m, MsgTypeOf[n])))
                 /\ \A x \in Nodes : TopOf[x] # n => log'[x] = log[x]]_vars

\* the cortex has been updated with the message a plain top-level lobe sent
\* to it
C12_Witness ==
    \E i \in DOMAIN log["A"] :
        /\ log["A"][i].k = "Message"
        /\ log["A"][i].src = HandleOf["T"]
        /\ calls[log["A"][i].m.v].by = "T"
        /\ calls[log["A"][i].m.v].dest = HandleOf["A"]

----------------------------------------------------------------------------
(* Order of delivery *)

\* C13 as stated: for any sender and any destination, the messages the sender
\* sent to that destination are delivered in the order the sender issued them,
\* whatever the order in which the spawned delivery futures complete and
\* across every cortex on the path.
C13_FifoPerPair ==
    \A n \in Leaves : \A i, j \in DOMAIN log[n] :
        /\ i < j
        /\ log[n][i].k = "Message"
        /\ log[n][j].k = "Message"
        /\ calls[log[n][i].m.v].by = calls[log[n][j].m.v].by
        /\ calls[log[n][i].m.v].dest = calls[log[n][j].m.v].dest
        => log[n][i].m.v < log[n][j].m.v

----------------------------------------------------------------------------
(* Organelle: more impulses than a channel holds *)

RECURSIVE WiringSent(_, _)
\* the impulses the first k connect calls sent to soma u, in the order the
\* calls spawned their sends, as the soma receives them
WiringSent(u, k) ==
    IF k = 0 THEN <<>>
    ELSE LET s == synapses[k]
         IN  WiringSent(u, k - 1)
             \o (IF s[3] = "Ok" /\ s[1] = u
                 THEN <<Impulse("AddTerminal", SynapseOf[u], k)>> ELSE <<>>)
             \o (IF s[3] = "Ok" /\ s[2] = u
                 THEN <<Impulse("AddDendrite", SynapseOf[u], k)>> ELSE <<>>)

\* nothing is on its way to soma u
Drained(u) ==
    /\ \A t \in spawned : t.to # u
    /\ rx[u] = <<>>
    /\ relay[u] = NoImpulse
    /\ soma_rx[u] = <<>>

C15_ErrorPrecedesStop ==
    [][(/\ organelle = "running"
        /\ \E i, j \in DOMAIN main_rx :
              /\ i < j
              /\ main_rx[i].k = "Stop"
              /\ main_rx[j].k = "Error")
       => organelle' # "Ok"]_vars

\* C16: when a run loop (Organelle::run or the default Soma::run) takes an
\* Error impulse from its channel, run returns an error carrying the cause of
\* that impulse, and after that no update is applied to any soma.
C16_ErrorEndsRun ==
    [][/\ (/\ organelle = "running"
           /\ main_rx # <<>>
           /\ Head(main_rx).k = "Error"
           /\ main_rx' = Tail(main_rx))
          => organelle' = "Err" /\ failure' = Head(main_rx).n
       /\ organelle = "Err"
          => /\ organelle' = "Err"
             /\ failure' = failure
             /\ impulses' = impulses
             /\ soma' = soma
       /\ (/\ solo.state = "running"
           /\ solo_rx # <<>>
           /\ Head(solo_rx).k = "Error"
           /\ solo_rx' = Tail(solo_rx))
          => /\ solo'.state = "Err"
             /\ solo'.failure = Head(solo_rx).n
             /\ solo'.updates = solo.updates
       /\ solo.state = "Err" => solo' = solo]_vars

\* both run loops have returned the error of an Error impulse they took, the
\* organelle's after its somas had been updated
C16_Witness ==
    \/ /\ organelle = "Err"
       /\ failure = TaskError(Visualizer)
       /\ impulses[Worker] # <<>>
    \/ /\ solo.state = "Err"
       /\ solo.failure = TaskError(solo.kind)
       /\ solo.updates # <<>>

\* the update of soma u has failed: run_soma has ended and dropped the soma
Failed(u) == u \in SomaChannels /\ ~soma[u].alive

\* C17: when the update of a soma that is a direct child of a running
\* organelle fails, the failure becomes an Error impulse on the main channel
\* and the run of the organelle returns that error: it does not return Ok,
\* does not return another error and does not panic.
C17_ChildFailureEndsRun ==
    \A u \in Uuids :
        Failed(u) =>
            /\ organelle \in {"running", "Err"}
            /\ organelle = "running" =>
                  \E i \in DOMAIN main_rx :
                      main_rx[i] = Impulse("Error", OrganelleSynapse, UpdateError(u))
            /\ organelle = "Err" => failure = UpdateError(u)

\* C18: a failure is not dropped at any depth: when the update of a soma of
\* an organelle that is itself a soma of another organelle fails, the run of
\* the outermost organelle eventually terminates with an error.
C18_NestedFailureEndsRun == Failed(Nested) ~> organelle = "Err"

\* C19: Organelle::connect with a dendrite or terminal uuid the organelle has
\* not registered returns an error, spawns no send of AddTerminal or
\* AddDendrite, and leaves the registry and every channel as they were.
C19_ConnectUnknownUuid ==
    [][\A d, t \in Uuids \cup {NoUuid} :
          (/\ Len(synapses') = Len(synapses) + 1
           /\ synapses'[Len(synapses')][1] = d
           /\ synapses'[Len(synapses')][2] = t
           /\ (d \notin somas \/ t \notin somas))
          => /\ synapses'[Len(synapses')][3] = "Err"
             /\ spawned' = spawned
             /\ somas' = somas
             /\ rx' = rx
             /\ main_rx' = main_rx]_vars

\* a connect of the nucleus to an unknown uuid has failed, and the organelle
\* has run since without the nucleus receiving an impulse of it
C19_Witness ==
    /\ organelle = "running"
    /\ \E i \in DOMAIN synapses : synapses[i] = <<Visualizer, NoUuid, "Err">>
    /\ impulses[Visualizer] # <<>>
    /\ \A j \in DOMAIN impulses[Visualizer] :
          impulses[Visualizer][j].k = "AddTerminal" =>
              synapses[impulses[Visualizer][j].n][3] = "Ok"

\* C20: a connect on the cerebrum or on a cortex that names a handle the
\* registry does not own fails at the call: a cortex records no such edge,
\* and no lobe has been notified with AddInput or AddOutput of that handle.
C20_ConnectUnknownHandle ==
    /\ \A c \in Cortexes : \A i \in DOMAIN connections[c] :
          connections[c][i][1] # Stranger /\ connections[c][i][2] # Stranger
    /\ \A n \in Leaves : \A i \in DOMAIN log[n] :
          log[n][i].k \in {"AddInput", "AddOutput"} => log[n][i].h # Stranger

\* C21: the default Soma::run returns only after its loop has taken a Stop
\* (it returns Ok), has taken an Error (it returns that error) or after an
\* update has failed (it returns that failure); it does not return otherwise.
C21_RunReturnsOnlyOnStopOrError ==
    [][(solo.state = "running" /\ solo'.state \in {"Ok", "Err"})
       => /\ solo_rx # <<>>
          /\ solo_rx' = Tail(solo_rx)
          /\ LET imp == Head(solo_rx)
             IN  \/ imp.k = "Stop" /\ solo'.state = "Ok"
                 \/ /\ imp.k = "Error"
                    /\ solo'.state = "Err"
                    /\ solo'.failure = imp.n
                 \/ /\ imp.k \notin {"Stop", "Error"}
                    /\ SomaUpdate(solo.kind, solo.soma, imp).out = "Err"
                    /\ solo'.state = "Err"
                    /\ solo'.failure = UpdateError(solo.kind)]_vars

\* the message types of the network
MsgTypes == {MsgTypeOf[n] : n \in DOMAIN MsgTypeOf} \cup {CerebrumType}

\* the control events, Init excepted, over the handles H
Events(H) ==
    {AddInput(h) : h \in H} \cup {AddOutput(h) : h \in H} \cup {Start, Stop}
    \cup {Payload(h[1], h[2], [ty |-> t, v |-> v, c |-> Body]) :
             h \in H \X H, t \in MsgTypes, v \in 1..MaxCalls}
    \cup {Message(h, [ty |-> t, v |-> v, c |-> Body]) : h \in H, t \in MsgTypes, v \in 1..MaxCalls}

\* C22: convert_protocol maps every event but Init to an event of the same
\* variant with the same handles; only the message of a Payload or a Message
\* changes, to the converted message.
C22_ConvertKeepsVariantAndHandles ==
    \A e \in Events(CerebrumHandles \cup {Stranger}) :
    \A t \in {MsgTypeOf[n] : n \in Present} \cup {CerebrumType} :
        LET c == convert_protocol(e, t)
        IN  /\ c.k = e.k
            /\ c.h = e.h
            /\ c.src = e.src
            /\ c.dest = e.dest
            /\ c.eff = e.eff
            /\ c.m = IF e.k \in {"Payload", "Message"} THEN Into(e.m, t) ELSE e.m

\* a lobe whose message type is not its network's has received, converted, a
\* Message sent by a lobe of the network
C22_Witness ==
    \E n \in Leaves : \E i \in DOMAIN log[n] :
        /\ MsgTypeOf[n] # NetTypeOf(n)
        /\ log[n][i].k = "Message"
        /\ log[n][i].m.ty = MsgTypeOf[n]
        /\ log[n][i].src \in CerebrumHandles

\* C23: Impulse::convert_from turns every impulse into the same variant of
\* the target type, Start included, keeping what the impulse carries (the
\* cause of an Error) and rejecting none: so it does for every impulse that
\* has reached the channel of a soma.
C23_ConvertFromKeepsVariant ==
    \A u \in somas : \A i \in DOMAIN rx[u] :
        LET c == convert_from(rx[u][i], SynapseOf[u])
        IN  /\ c.k = rx[u][i].k
            /\ c.n = rx[u][i].n
            /\ c.ty = SynapseOf[u]

----------------------------------------------------------------------------
\* the reactor polls what is ready while the run of the test network is pending
SpecTestFair == SpecTest /\ WF_vars(Turn)

\* the conversions of the test module are total and inverse to each other
RoundTrips ==
    /\ \A a \in IncrementerMessage :
          /\ CounterMessage_from(a) \in CounterMessage
          /\ IncrementerMessage_from(CounterMessage_from(a)) = a
    /\ \A b \in CounterMessage :
          /\ IncrementerMessage_from(b) \in IncrementerMessage
          /\ CounterMessage_from(IncrementerMessage_from(b)) = b

\* C24: the conversions declared between IncrementerMessage and
\* CounterMessage, which the network of the tests applies to every message it
\* delivers, are total and round-trip: every value of IncrementerMessage
\* converted to CounterMessage and back is the value itself, and every value
\* of CounterMessage converted to IncrementerMessage and back is the value
\* itself.
C24_ConversionsRoundTrip ==
    \A n \in TestLobes : \A i \in DOMAIN log[n] :
        log[n][i].k = "Message" => RoundTrips

\* the program of test_cortex: the input child connected to the output child,
\* the cortex added to the cerebrum, nothing else wired
TestWired ==
    /\ connections["X"] = <<<<InputHdl("X"), OutputHdl("X")>>>>
    /\ declared = <<>>
    /\ nodes = {"X"}

\* the Acks the incrementer has been updated with
Acks == Cardinality({i \in DOMAIN log["XI"] :
                        log["XI"][i].k = "Message" /\ log["XI"][i].m.c = "Ack"})

\* a Payload sent and not delivered: in a channel, or in a send future
PendingPayload ==
    \/ \E ch \in Channels : \E i \in DOMAIN queue[ch] : queue[ch][i].msg.k = "Payload"
    \/ \E t \in tasks : t.msg.k = "Payload"

\* C25: in the network of test_cortex, however the reactor interleaves the
\* futures, nothing panics (no conversion fails, no assertion fails), the
\* incrementer is never given more than 5 Acks, the run that has been started
\* returns Ok, and when it has returned Ok the incrementer has been given
\* exactly 5 Acks, the counter is 5 and no Payload is left undelivered.
C25_TestCortexTerminates ==
    /\ [](TestWired => /\ result \in {"pending", "Ok"}
                       /\ Acks <= CounterLimit
                       /\ result = "Ok" => /\ Acks = CounterLimit
                                           /\ counter(log["XO"]) = CounterLimit
                                           /\ Bumps(log["XO"]) = CounterLimit + 1
                                           /\ ~PendingPayload)
    /\ (TestWired /\ Running) ~> (result = "Ok")

C25_Witness == TestWired /\ result = "Ok" /\ Acks = CounterLimit

\* a send future of the organelle completes with an error that is discarded:
\* the receiver of the channel is gone and the impulse goes nowhere
Swallowed(t) ==
    /\ t \in spawned
    /\ spawned' = spawned \ {t}
    /\ t.to \in dropped
    /\ rx' = rx

\* C26: a send that fails because the receiver is gone is silently ignored
\* only when the event is a Stop sent during shutdown: while the organelle is
\* running, no failed send of a wiring impulse (AddDendrite, AddTerminal), of
\* Start or of a payload is discarded.
C26_OnlyStopSwallowed ==
    [][\A t \in spawned : (organelle = "running" /\ Swallowed(t)) => t.imp.k = "Stop"]_vars

\* the message type of lobe n differs from the type of its network
Foreign(n) == MsgTypeOf[n] # NetTypeOf(n)

\* the handle in the effector of the Init event made for lobe n
GivenHandle(n) == IF n \in DOMAIN InitHandleOf THEN InitHandleOf[n] ELSE HandleOf[n]

\* the channel of the network lobe n is a node of
OuterChannel(n) == IF ParentOf[n] = NoNode THEN Cerebrum ELSE ParentOf[n]

\* C27: the effector a lobe of a foreign message type holds after its Init was
\* converted has the handle of the effector that was given, and every call
\* the lobe makes on it (send or stop) spawns the delivery, to the channel of
\* the lobe's network, of the same event in the network's message type: Stop
\* for stop, and for send the Payload with the effector's handle as source,
\* the destination of the call and the message converted.
C27_WrappedEffectorConvertsBack ==
    [][\A i \in NewCalls :
          LET n   == calls'[i].by
              eff == effector'[n]
          IN  Foreign(n) =>
                /\ eff.handle = GivenHandle(n)
                /\ eff.ty = MsgTypeOf[n]
                /\ [to |-> OuterChannel(n), id |-> i,
                    msg |-> IF calls'[i].do = "Stop" THEN Stop
                            ELSE Payload(GivenHandle(n), calls'[i].dest,
                                         [ty |-> NetTypeOf(n), v |-> i, c |-> Body])]
                      \in tasks']_vars

\* a Payload sent by a lobe of a foreign type has entered the outer channel
C27_Witness ==
    \E i \in DOMAIN calls : \E j \in DOMAIN queue[OuterChannel(calls[i].by)] :
        LET n == calls[i].by
            e == queue[OuterChannel(n)][j]
        IN  /\ Foreign(n)
            /\ calls[i].do = "Payload"
            /\ e.id = i
            /\ e.msg = Payload(GivenHandle(n), calls[i].dest,
                               [ty |-> NetTypeOf(n), v |-> i, c |-> Body])

\* C28: the wrapper of a lobe holds the lobe before and after every update:
\* unless an update has panicked, every slot is full, and no update is ever
\* invoked on a wrapper whose slot is empty.
C28_SlotAlwaysFull ==
    /\ \A n \in Nodes : slot[n] # "misused"
    /\ result # "Panic" => \A n \in Nodes : slot[n] = "full"

\* a lobe inside a cortex has been updated with a message and is in its slot
C28_Witness ==
    /\ result = "pending"
    /\ \E n \in Leaves : \E i \in DOMAIN log[n] :
          ParentOf[n] # NoNode /\ log[n][i].k = "Message" /\ slot[n] = "full"

\* the events lobe x is updated with in this step
NewEvents(x) == {log'[x][j] : j \in (Len(log[x]) + 1)..Len(log'[x])}

\* C29: the nodes of a cortex are never borrowed while they are borrowed: no
\* update of a child and no forward step of a cortex begins during an update
\* of one of its children, and between two steps of the event loop the nodes
\* are free unless a panic has ended the program; the message of a send made
\* during a step is delivered to no lobe in that step.
C29_RegistryNeverReentered ==
    /\ [](\A c \in Cortexes :
             /\ registry[c] # "reentered"
             /\ result # "Panic" => registry[c] = "free")
    /\ [][\A i \in NewCalls : \A x \in Nodes : \A e \in NewEvents(x) :
             e.k = "Message" => e.m.v # i]_vars

\* a lobe inside a cortex was updated with a message, made a send during that
\* update, and the Payload has been forwarded in a later step
C29_Witness ==
    /\ result = "pending"
    /\ \E i \in DOMAIN calls : \E x \in Leaves : \E j \in DOMAIN log[x] :
          /\ ParentOf[calls[i].by] # NoNode
          /\ ParentOf[x] = ParentOf[calls[i].by]
          /\ log[x][j].k = "Message"
          /\ log[x][j].m.v = i

\* the program builds one composite: a cerebrum around cortex A, or an organelle
InitComposites ==
    /\ Fresh
    /\ NewSolo(NoUuid)
    /\ \/ pool = {"A", "T"} /\ NoOrganelle
       \/ pool = {} /\ NewOrganelle

NextComposites ==
    \/ pool # {} /\ Next
    \/ pool = {} /\ NextOrganelle

SpecComposites == InitComposites /\ [][NextComposites]_vars

\* C30: the boundary children of a composite are permanent.  The input and
\* output handles of a cortex always designate the lobes given to Cortex::new,
\* no interior child is one of them or is registered under their handles, the
\* effectors of the boundary children carry those handles, and the interior
\* children only grow; the nucleus of an organelle is always among its somas,
\* and no soma is ever removed.
C30_BoundaryChildrenPermanent ==
    /\ [](\A c \in Cortexes :
             /\ NodeAt(c, InputHdl(c)) = InputOf[c]
             /\ NodeAt(c, OutputHdl(c)) = OutputOf[c]
             /\ misc[c] \cap {InputOf[c], OutputOf[c]} = {}
             /\ \A n \in misc[c] : HandleOf[n] \notin {InputHdl(c), OutputHdl(c)}
             /\ effector[InputOf[c]] # NoEff => effector[InputOf[c]].handle = InputHdl(c)
             /\ effector[OutputOf[c]] # NoEff => effector[OutputOf[c]].handle = OutputHdl(c))
    /\ [](organelle # "none" => nucleus \in somas)
    /\ [][/\ \A c \in Cortexes : misc[c] \subseteq misc'[c]
          /\ somas \subseteq somas']_vars

\* a cortex given an interior child has initialized its boundary children
C30_Witness ==
    /\ "AM" \in misc["A"]
    /\ effector["AI"].handle = InputHdl("A")
    /\ effector["AO"].handle = OutputHdl("A")

\* how many times event e occurs in a log
Count(lg, e) == Cardinality({j \in DOMAIN lg : lg[j] = e})

\* how many of the connections conns are the pair w
Pairs(conns, w) == Cardinality({i \in DOMAIN conns : conns[i] = w})

\* this step is Cerebrum::connect(input, output)
Connecting(input, output) == declared' = Append(declared, <<input, output>>)

\* this step initializes cortex c
Initializing(c) == log[c] = <<>> /\ log'[c] # <<>>

\* C31: Cerebrum::connect(input, output) with both handles registered updates
\* the node registered under input with one AddOutput(output) and the node
\* registered under output with one AddInput(input), updates no lobe outside
\* these two nodes, and does not panic; and when a cortex whose declared
\* connections name its children is initialized, every child has afterwards
\* been updated with AddOutput(h) once per declared pair (child, h) and with
\* AddInput(h) once per declared pair (h, child).
C31_ConnectNotifiesBothEnds ==
    [][/\ \A input, output \in CerebrumHandles :
             Connecting(input, output) =>
                /\ result' = result
                /\ Updated(NodeOf(input), AddOutput(output))
                /\ Updated(NodeOf(output), AddInput(input))
                /\ \A x \in Nodes :
                      TopOf[x] \notin {NodeOf(input), NodeOf(output)} => log'[x] = log[x]
       /\ \A c \in Cortexes :
             (/\ Initializing(c)
              /\ \A i \in DOMAIN connections[c] :
                    /\ connections[c][i][1] \in CortexHandles(c)
                    /\ connections[c][i][2] \in CortexHandles(c))
             => /\ result' = result
                /\ \A n \in Children(c) : \A h \in CortexHandles(c) :
                      /\ Count(log'[n], AddOutput(h))
                            = Pairs(connections[c], <<HandleOf[n], h>>)
                      /\ Count(log'[n], AddInput(h))
                            = Pairs(connections[c], <<h, HandleOf[n]>>)]_vars

\* both kinds of connection have been applied: the cerebrum has connected two
\* registered nodes, and an initialized cortex had declared a connection
C31_Witness ==
    /\ result = "pending"
    /\ \E i \in DOMAIN declared :
          declared[i][1] \in CerebrumHandles /\ declared[i][2] \in CerebrumHandles
    /\ \E c \in Cortexes : connections[c] # <<>> /\ log[c] # <<>>

\* the impulses that end a run loop
Terminal == {"Stop", "Error"}

\* C32: no update of a soma is invoked with Stop or with Error, neither the
\* update of a soma driven by its own run loop nor the update of a soma added
\* to an organelle: the run loops consume these impulses.
C32_UpdateNeverSeesStopOrError ==
    /\ \A i \in DOMAIN solo.updates : solo.updates[i].k \notin Terminal
    /\ \A u \in Uuids : \A i \in DOMAIN impulses[u] : impulses[u][i].k \notin Terminal

\* a soma that has been updated had its run loop ended by an Error impulse
C32_Witness ==
    /\ solo.state = "Err"
    /\ solo.failure = TaskError(solo.kind)
    /\ solo.updates # <<>>

\* lobe n has called stop() on its effector
Stopped(n) == \E i \in DOMAIN calls : calls[i].by = n /\ calls[i].do = "Stop"

\* C33: once a lobe has called stop() on its effector, its update is invoked
\* with no Message any more, not even with one that was on its way to the
\* lobe when it called stop().
C33_NoMessageAfterOwnStop ==
    [][\A n \in Leaves :
          Stopped(n) => \A e \in NewEvents(n) : e.k # "Message"]_vars

\* the event the cerebrum's loop takes next from its channel
NextEvent == Head(queue[Cerebrum]).msg

\* the cerebrum's loop takes the event at the head of its channel in this step
Taking == queue[Cerebrum] # <<>> /\ queue'[Cerebrum] = Tail(queue[Cerebrum])

\* a Payload whose destination is the handle of no top-level node
Unregistered(msg) == msg.k = "Payload" /\ NodeOf(msg.dest) = NoNode

\* C34: when the cerebrum's loop takes a Payload whose destination is not the
\* handle of a top-level node, the run panics in that very step and no lobe and
\* no cortex is updated with it; after the panic nothing is delivered any more.
C34_UnregisteredDestIsFatal ==
    [][ /\ (Running /\ Taking /\ Unregistered(NextEvent))
            => result' = "Panic" /\ log' = log
        /\ result = "Panic" => result' = "Panic" /\ log' = log ]_vars

\* the run has panicked on the only effector call made, a send to a handle
\* that is registered with no top-level node, and nothing is left in flight
C34_Witness ==
    /\ phase = "run"
    /\ result = "Panic"
    /\ Len(calls) = 1
    /\ calls[1].do = "Payload"
    /\ NodeOf(calls[1].dest) = NoNode
    /\ tasks = {}
    /\ \A q \in DOMAIN queue : queue[q] = <<>>

\* the events Cerebrum::run and Cortex::forward handle
ChannelEvents == {"Payload", "Stop"}

\* the events Cortex::update handles
CortexEvents == {"Init", "AddInput", "AddOutput", "Start", "Message"}

\* the kinds of event in a sequence of events
Kinds(lg) == {lg[i].k : i \in DOMAIN lg}

\* C35: every event sent to or waiting in the channel of the cerebrum or of a
\* cortex is a Payload or a Stop, and every event a cortex has been updated
\* with is an Init, AddInput, AddOutput, Start or Message: the catch-all
\* branches of Cerebrum::run, Cortex::forward and Cortex::update are never
\* taken.
C35_OnlyHandledEvents ==
    /\ \A t \in tasks : t.msg.k \in ChannelEvents
    /\ \A q \in DOMAIN queue : \A i \in DOMAIN queue[q] :
          queue[q][i].msg.k \in ChannelEvents
    /\ \A c \in Cortexes : Kinds(log[c]) \subseteq CortexEvents

\* a cortex nested in another cortex has been updated with Init, Start and a
\* Message while a Stop waits in a channel
C35_Witness ==
    /\ result = "pending"
    /\ \E c \in Cortexes :
          /\ ParentOf[c] # NoNode
          /\ {"Init", "Start", "Message"} \subseteq Kinds(log[c])
    /\ \E q \in DOMAIN queue : \E i \in DOMAIN queue[q] : queue[q][i].msg.k = "Stop"

\* the events node x is updated with in this step, in order
New(x) == SubSeq(log'[x], Len(log[x]) + 1, Len(log'[x]))

\* the events that Cortex::update hands to one boundary child
Addressed == {"Message", "AddInput", "AddOutput"}

\* the events of lg with a kind in K, as child n receives them
Handed(lg, K, n) ==
    LET sel == SelectSeq(lg, LAMBDA e : e.k \in K)
    IN  [i \in DOMAIN sel |-> convert_protocol(sel[i], MsgTypeOf[n])]

\* C36: in a step in which a cortex is updated with Message, AddInput or
\* AddOutput events only, its input child is updated with exactly its
\* Message(src, m) and AddInput(h) events, src unchanged and in the same order,
\* its output child with exactly its AddOutput(h) events, and no interior
\* child is updated at all.
C36_OnlyBoundaryChildren ==
    [][\A c \in Cortexes :
          (New(c) # <<>> /\ Kinds(New(c)) \subseteq Addressed)
              => /\ New(InputOf[c]) = Handed(New(c), {"Message", "AddInput"}, InputOf[c])
                 /\ New(OutputOf[c]) = Handed(New(c), {"AddOutput"}, OutputOf[c])
                 /\ \A n \in misc[c] : New(n) = <<>>]_vars

\* cortex A, which has the interior child AM, has been updated with an
\* AddInput and a Message, its input child AI with both, and AM with none of
\* the addressed events
C36_Witness ==
    /\ result = "pending"
    /\ misc["A"] = {"AM"}
    /\ {"AddInput", "Message"} \subseteq Kinds(log["A"])
    /\ {"AddInput", "Message"} \subseteq Kinds(log["AI"])
    /\ Kinds(log["AM"]) \cap Addressed = {}
====
